---------------------------- MODULE Spec2Model ----------------------------
(***************************************************************************)
(* Model of the Copilot usage dashboard (src/dashboard.py) and of the      *)
(* ingestion script (src/main.py).                                         *)
(*                                                                         *)
(* Encoding of the Python values:                                          *)
(*   - a dict is a record; a key that is absent is absent from the         *)
(*     record's DOMAIN, so  k in d  is  k \in DOMAIN d  and                *)
(*     d.get(k, default) is Get(d, k, default);                            *)
(*   - a value that may be None, a list or a dict carries a "kind":        *)
(*     Null, Lst(items), or a record with kind = "dict";                   *)
(*   - counts are integers, names are strings, dates are day numbers;      *)
(*   - a float quotient is kept exact as a fraction Num(n, d), or is one   *)
(*     of the IEEE specials Inf, NaN.                                      *)
(* A cell of the wide table whose record lacks the column, while another   *)
(* record has it, reads as None for the struct columns and as NaN for the  *)
(* numeric columns (what the parquet snapshot gives back).                 *)
(***************************************************************************)
EXTENDS Integers, Sequences, FiniteSets, TLC

VARIABLES
    df,        \* dashboard: the wide table handed to main(), a sequence of records
    pc,        \* dashboard: "loaded" -> "lang_done" -> "ready" -> "rendered", or "error"
    lang_df,   \* dashboard: result of extract_language_metrics(df)
    chat_df,   \* dashboard: result of extract_chat_metrics(df)
    view,      \* dashboard: what the last render_* call computed
    fs,        \* ingestion: data_dir, whether it exists and its *.json files as globbed
    all_data,  \* ingestion: the records load_json_files returned, once it has run
    snapshot,  \* ingestion: the file data.parquet of the output directory
    run        \* ingestion: the run of main() of src/main.py, its position and its table

vars == <<df, pc, lang_df, chat_df, view, fs, all_data, snapshot, run>>

dashVars == <<df, pc, lang_df, chat_df, view>>

ingestVars == <<fs, all_data, snapshot, run>>

(***************************************************************************)
(* Bounds of the model.                                                    *)
(***************************************************************************)
MaxShapeRecords == 2   \* rows of a table drawn from the shape family
MaxRecords == 2        \* rows of a table drawn from the date family
MaxCountRecords == 2   \* rows of a table drawn from the count family
MaxCount == 2          \* largest count value drawn for a count field
MaxStem == 4           \* characters of a file stem
MaxFiles == 1          \* files in the data directory
MaxRunFiles == 2       \* files in the source directory of a run of main()
MaxOrgDates == 6       \* dates an organization has records for

(***************************************************************************)
(* Python values.                                                          *)
(***************************************************************************)
Null == [kind |-> "null"]
Lst(items) == [kind |-> "list", items |-> items]

IsList(v) == v.kind = "list"
IsDict(v) == v.kind = "dict"

\* bool(v) for None, a list or a dict
Truthy(v) ==
    CASE v.kind = "null" -> FALSE
      [] v.kind = "list" -> Len(v.items) > 0
      [] v.kind = "dict" -> DOMAIN v # {"kind"}

\* d.get(k, default)
Get(d, k, default) == IF k \in DOMAIN d THEN d[k] ELSE default

\* the dict d with key k set to v
With(d, k, v) == [x \in DOMAIN d \cup {k} |-> IF x = k THEN v ELSE d[x]]

RECURSIVE FlatMap(_, _)
FlatMap(F(_), s) ==
    IF Len(s) = 0 THEN <<>> ELSE F(Head(s)) \o FlatMap(F, Tail(s))

RECURSIVE SumField(_, _)
SumField(rows, f) ==
    IF Len(rows) = 0 THEN 0 ELSE Head(rows)[f] + SumField(Tail(rows), f)

(***************************************************************************)
(* The wide table: 'col' in row, and row[col].                             *)
(***************************************************************************)
\* 'col' in row: the columns of a DataFrame are the union of the records' keys
HasColumn(table, col) == \E i \in 1..Len(table) : col \in DOMAIN table[i]

\* row[col] for a struct column that the table has
StructCell(row, col) == IF col \in DOMAIN row THEN row[col] ELSE Null

(***************************************************************************)
(* extract_language_metrics                                                *)
(***************************************************************************)
LangRow(date, org, editor_name, lang) ==
    [date |-> date,
     organization |-> org,
     editor |-> editor_name,
     language |-> Get(lang, "name", "unknown"),
     total_engaged_users |-> Get(lang, "total_engaged_users", 0),
     total_code_acceptances |-> Get(lang, "total_code_acceptances", 0),
     total_code_suggestions |-> Get(lang, "total_code_suggestions", 0),
     total_code_lines_accepted |-> Get(lang, "total_code_lines_accepted", 0),
     total_code_lines_suggested |-> Get(lang, "total_code_lines_suggested", 0),
     feature_type |-> "code_completions"]

\* a loop over model['languages'] that stops after its first language
LangModelFirstLanguage(date, org, editor_name, model) ==
    IF "languages" \in DOMAIN model /\ Len(model.languages.items) > 0
    THEN <<LangRow(date, org, editor_name, model.languages.items[1])>>
    ELSE <<>>

\* for model in editor['models']: if 'languages' in model: for lang in ...
LangModelRows(date, org, editor_name, model) ==
    IF "languages" \in DOMAIN model
    THEN [i \in 1..Len(model.languages.items) |->
             LangRow(date, org, editor_name, model.languages.items[i])]
    ELSE <<>>

LangModelRaises(model) ==
    "languages" \in DOMAIN model /\ ~IsList(model.languages)

\* for editor in completions['editors']: if 'models' in editor: for model in ...
LangEditorRows(date, org, editor) ==
    IF "models" \in DOMAIN editor
    THEN FlatMap(LAMBDA m : LangModelRows(date, org, Get(editor, "name", "unknown"), m),
                 editor.models.items)
    ELSE <<>>

LangEditorRaises(editor) ==
    "models" \in DOMAIN editor
    /\ (~IsList(editor.models)
        \/ \E i \in 1..Len(editor.models.items) : LangModelRaises(editor.models.items[i]))

\* the body of the loop over the rows of the table
LangRecordEnters(table, row) ==
    /\ HasColumn(table, "copilot_ide_code_completions")
    /\ Truthy(StructCell(row, "copilot_ide_code_completions"))
    /\ "editors" \in DOMAIN row.copilot_ide_code_completions

LangRecordRows(table, row) ==
    IF LangRecordEnters(table, row)
    THEN FlatMap(LAMBDA e : LangEditorRows(row.date, row.organization, e),
                 row.copilot_ide_code_completions.editors.items)
    ELSE <<>>

LangRecordRaises(table, row) ==
    /\ LangRecordEnters(table, row)
    /\ LET editors == row.copilot_ide_code_completions.editors
       IN  \/ ~IsList(editors)
           \/ \E i \in 1..Len(editors.items) : LangEditorRaises(editors.items[i])

\* whether extract_language_metrics(table) raises (iterating None: TypeError)
extract_language_metrics_raises(table) ==
    \E i \in 1..Len(table) : LangRecordRaises(table, table[i])

\* the rows extract_language_metrics(table) returns when it does not raise
extract_language_metrics(table) ==
    FlatMap(LAMBDA row : LangRecordRows(table, row), table)

(***************************************************************************)
(* extract_chat_metrics                                                    *)
(***************************************************************************)
IdeChatRow(date, org, editor_name, model) ==
    [date |-> date,
     organization |-> org,
     editor |-> editor_name,
     feature_type |-> "ide_chat",
     total_engaged_users |-> Get(model, "total_engaged_users", 0),
     total_chats |-> Get(model, "total_chats", 0),
     total_chat_copy_events |-> Get(model, "total_chat_copy_events", 0),
     total_chat_insertion_events |-> Get(model, "total_chat_insertion_events", 0)]

\* for editor in chat['editors']: if 'models' in editor: for model in ...
ChatEditorRows(date, org, editor) ==
    IF "models" \in DOMAIN editor
    THEN [i \in 1..Len(editor.models.items) |->
             IdeChatRow(date, org, Get(editor, "name", "unknown"), editor.models.items[i])]
    ELSE <<>>

ChatEditorRaises(editor) ==
    "models" \in DOMAIN editor /\ ~IsList(editor.models)

IdeChatEnters(table, row) ==
    /\ HasColumn(table, "copilot_ide_chat")
    /\ Truthy(StructCell(row, "copilot_ide_chat"))
    /\ "editors" \in DOMAIN row.copilot_ide_chat

IdeChatRows(table, row) ==
    IF IdeChatEnters(table, row)
    THEN FlatMap(LAMBDA e : ChatEditorRows(row.date, row.organization, e),
                 row.copilot_ide_chat.editors.items)
    ELSE <<>>

IdeChatRaises(table, row) ==
    /\ IdeChatEnters(table, row)
    /\ LET editors == row.copilot_ide_chat.editors
       IN  \/ ~IsList(editors)
           \/ \E i \in 1..Len(editors.items) : ChatEditorRaises(editors.items[i])

\* total_chats of a dotcom_chat row: the model at index 0 only
DotcomTotalChatsAllModels(dotcom_chat) ==
    IF "models" \in DOMAIN dotcom_chat /\ Truthy(dotcom_chat.models)
    THEN SumField([i \in 1..Len(dotcom_chat.models.items) |->
                      [total_chats |-> Get(dotcom_chat.models.items[i], "total_chats", 0)]],
                  "total_chats")
    ELSE 0

DotcomTotalChats(dotcom_chat) ==
    IF "models" \in DOMAIN dotcom_chat
       /\ Truthy(dotcom_chat.models)
       /\ Len(dotcom_chat.models.items) > 0
    THEN Get(dotcom_chat.models.items[1], "total_chats", 0)
    ELSE 0

\* a test that also asks for a model in copilot_dotcom_chat
DotcomChatEntersWithModels(table, row) ==
    /\ HasColumn(table, "copilot_dotcom_chat")
    /\ Truthy(StructCell(row, "copilot_dotcom_chat"))
    /\ "models" \in DOMAIN row.copilot_dotcom_chat
    /\ Truthy(row.copilot_dotcom_chat.models)

DotcomChatEnters(table, row) ==
    /\ HasColumn(table, "copilot_dotcom_chat")
    /\ Truthy(StructCell(row, "copilot_dotcom_chat"))

DotcomChatRow(row) ==
    [date |-> row.date,
     organization |-> row.organization,
     editor |-> "github.com",
     feature_type |-> "dotcom_chat",
     total_engaged_users |-> Get(row.copilot_dotcom_chat, "total_engaged_users", 0),
     total_chats |-> DotcomTotalChats(row.copilot_dotcom_chat),
     total_chat_copy_events |-> 0,
     total_chat_insertion_events |-> 0]

ChatRecordRows(table, row) ==
    IdeChatRows(table, row)
    \o (IF DotcomChatEnters(table, row) THEN <<DotcomChatRow(row)>> ELSE <<>>)

\* whether extract_chat_metrics(table) raises (iterating None: TypeError)
extract_chat_metrics_raises(table) ==
    \E i \in 1..Len(table) : IdeChatRaises(table, table[i])

\* the rows extract_chat_metrics(table) returns when it does not raise
extract_chat_metrics(table) ==
    FlatMap(LAMBDA row : ChatRecordRows(table, row), table)

(***************************************************************************)
(* Floats: exact fractions and the IEEE specials.                          *)
(***************************************************************************)
Num(n, d) == [kind |-> "num", num |-> n, den |-> d]
Inf == [kind |-> "inf"]
NaN == [kind |-> "nan"]
Zero == Num(0, 1)

\* x - y for two finite fractions
FracSub(x, y) == Num(x.num * y.den - y.num * x.den, x.den * y.den)

\* a / b * 100 on pandas columns or numpy scalars: x/0 is inf, 0/0 is nan
PandasPercent(a, b) ==
    IF b # 0 THEN Num(100 * a, b)
    ELSE IF a > 0 THEN Inf
    ELSE NaN

\* Series.fillna(0): replaces NaN only
FillNa0(x) == IF x.kind = "nan" THEN Zero ELSE x

\* (a / b * 100) if b > 0 else 0
GuardedPercentPerMille(a, b) == IF b > 0 THEN Num(1000 * a, b) ELSE Zero

GuardedPercent(a, b) == IF b > 0 THEN Num(100 * a, b) ELSE Zero

\* calculate_acceptance_rate(lang_df)
calculate_acceptance_rate(rows) ==
    IF Len(rows) = 0 THEN Zero
    ELSE GuardedPercent(SumField(rows, "total_code_acceptances"),
                        SumField(rows, "total_code_suggestions"))

(***************************************************************************)
(* Period windows.                                                         *)
(***************************************************************************)
PeriodOptions == {"Last 7 days", "Last 14 days", "Last 30 days", "All time"}

\* days = 7 | 14 | 30
Days(period) ==
    CASE period = "Last 7 days" -> 7
      [] period = "Last 14 days" -> 14
      [] period = "Last 30 days" -> 30

\* table['date'].max()
MaxDate(table) ==
    CHOOSE d \in {table[i].date : i \in 1..Len(table)} :
        \A i \in 1..Len(table) : table[i].date <= d

MinDate(table) ==
    CHOOSE d \in {table[i].date : i \in 1..Len(table)} :
        \A i \in 1..Len(table) : table[i].date >= d

\* start_date = max_date - pd.Timedelta(days=days-1)
StartDateOffByOne(max_date, days) == max_date - days

StartDate(max_date, days) == max_date - (days - 1)

\* prev_start = start_date - pd.Timedelta(days=days)
PrevStartShort(start_date, days) == start_date - (days - 1)

PrevStart(start_date, days) == start_date - days

\* prev_end = start_date - pd.Timedelta(days=1)
PrevEnd(start_date) == start_date - 1

\* table[table['date'] >= start_date]
FromDate(table, start_date) ==
    SelectSeq(table, LAMBDA r : r.date >= start_date)

\* table[(table['date'] >= prev_start) & (table['date'] <= prev_end)]
Between(table, prev_start, prev_end) ==
    SelectSeq(table, LAMBDA r : r.date >= prev_start /\ r.date <= prev_end)

\* the period filter of the render_* functions, on a table that is not empty:
\* filtered, previous and the dates they were cut at
Windows(table, period, compare_previous) ==
    IF period # "All time"
    THEN LET max_date == MaxDate(table)
             days == Days(period)
             start_date == StartDate(max_date, days)
             prev_start == PrevStart(start_date, days)
             prev_end == PrevEnd(start_date)
         IN  [windowed |-> TRUE,
              max_date |-> max_date,
              start_date |-> start_date,
              filtered |-> FromDate(table, start_date),
              has_previous |-> compare_previous,
              prev_start |-> IF compare_previous THEN prev_start ELSE 0,
              prev_end |-> IF compare_previous THEN prev_end ELSE 0,
              previous |-> IF compare_previous
                           THEN Between(table, prev_start, prev_end)
                           ELSE <<>>]
    ELSE [windowed |-> FALSE,
          max_date |-> 0,
          start_date |-> 0,
          filtered |-> table,
          has_previous |-> FALSE,
          prev_start |-> 0,
          prev_end |-> 0,
          previous |-> <<>>]

\* st.metric(delta=...): None, or the signed difference
NoDelta == [shown |-> FALSE, value |-> 0]

\* the magnitude of the difference, without its sign
DeltaUnsigned(n) == [shown |-> TRUE, value |-> IF n < 0 THEN -n ELSE n]

Delta(n) == [shown |-> TRUE, value |-> n]

\* the delta of a rate, a difference of two fractions
DeltaRate(x) == [shown |-> TRUE, value |-> x]

(***************************************************************************)
(* render_overview                                                         *)
(***************************************************************************)
\* latest_data.get(col, default) on the row of a table: the default only when
\* the table has no such column; NaN when this record lacks the value
NumCell(table, row, col, default) ==
    IF ~HasColumn(table, col) THEN Num(default, 1)
    ELSE IF col \in DOMAIN row THEN Num(row[col], 1)
    ELSE NaN

\* df[df['date'] == latest_date].iloc[0]
LatestData(table) ==
    LET latest_date == MaxDate(table)
        i == CHOOSE i \in 1..Len(table) :
                 /\ table[i].date = latest_date
                 /\ \A j \in 1..(i - 1) : table[j].date # latest_date
    IN  table[i]

\* engaged / active * 100 on two scalars of the latest row.  A zero divisor
\* gives inf or nan on numpy scalars and ZeroDivisionError on Python numbers.
EngagementRate(engaged, active, scalars) ==
    IF engaged.kind = "nan" \/ active.kind = "nan" THEN NaN
    ELSE IF active.num # 0 THEN Num(100 * engaged.num, active.num)
    ELSE IF scalars = "python" THEN [kind |-> "ZeroDivisionError"]
    ELSE PandasPercent(engaged.num, 0)

\* format_number of a count: "0" for NaN and for 0, a suffixed number from
\* 1000 on, int(num) otherwise
format_number(x) ==
    IF x.kind = "nan" THEN [shown |-> "int", value |-> 0]
    ELSE IF x.num = 0 THEN [shown |-> "int", value |-> 0]
    ELSE IF x.num >= 1000 THEN [shown |-> "suffixed", value |-> x.num]
    ELSE [shown |-> "int", value |-> x.num]

render_overview(table, scalars) ==
    LET latest_data == LatestData(table)
        active == NumCell(table, latest_data, "total_active_users", 0)
        engaged == NumCell(table, latest_data, "total_engaged_users", 0)
    IN  [view |-> "overview",
         latest_date |-> MaxDate(table),
         latest_data |-> latest_data,
         total_active_users |-> active,
         total_engaged_users |-> engaged,
         active_users_metric |-> format_number(active),
         engaged_users_metric |-> format_number(engaged),
         engagement_rate |->
             EngagementRate(engaged,
                            NumCell(table, latest_data, "total_active_users", 1),
                            scalars),
         date_range |-> IF Len(table) > 1
                        THEN MaxDate(table) - MinDate(table) + 1
                        ELSE 1]

(***************************************************************************)
(* render_language_analysis                                                *)
(***************************************************************************)
GroupKeys(rows, key) == {rows[i][key] : i \in 1..Len(rows)}

GroupRows(rows, key, k) == SelectSeq(rows, LAMBDA r : r[key] = k)

\* groupby(key)[field].sum()
GroupSum(rows, key, field) ==
    [k \in GroupKeys(rows, key) |-> SumField(GroupRows(rows, key, k), field)]

\* groupby('language').apply(lambda x: acceptances/suggestions*100 if suggestions > 0 else 0)
LangRates(rows) ==
    [k \in GroupKeys(rows, "language") |->
        GuardedPercent(SumField(GroupRows(rows, "language", k), "total_code_acceptances"),
                       SumField(GroupRows(rows, "language", k), "total_code_suggestions"))]

\* the language names of the model, in the order groupby('language') sorts
\* its keys
LanguageNames ==
    <<"c", "cpp", "go", "java", "kotlin", "lua", "php", "python", "ruby", "rust",
      "swift", "unknown">>

\* the group keys in the order the rows first show them
RECURSIVE KeysInRowOrder(_)
KeysInRowOrder(rows) ==
    IF rows = <<>> THEN <<>>
    ELSE LET rest == KeysInRowOrder(SubSeq(rows, 1, Len(rows) - 1))
             k == rows[Len(rows)].language
         IN  IF \E i \in 1..Len(rest) : rest[i] = k THEN rest ELSE Append(rest, k)

\* the index of groupby('language')[...].sum(): the group keys, sorted
SortedKeys(rows) ==
    SelectSeq(LanguageNames, LAMBDA k : k \in GroupKeys(rows, "language"))

Reverse(s) == [i \in 1..Len(s) |-> s[Len(s) + 1 - i]]

\* k put into a descending sequence, behind the keys whose sum is not smaller
RECURSIVE InsertDescending(_, _, _)
InsertDescending(k, sorted, sums) ==
    IF sorted = <<>> THEN <<k>>
    ELSE IF sums[Head(sorted)] >= sums[k]
         THEN <<Head(sorted)>> \o InsertDescending(k, Tail(sorted), sums)
         ELSE <<k>> \o sorted

\* the keys by descending sum, equal sums in the order of the keys
RECURSIVE SortDescendingStable(_, _)
SortDescendingStable(keys, sums) ==
    IF keys = <<>> THEN <<>>
    ELSE InsertDescending(keys[Len(keys)],
                          SortDescendingStable(SubSeq(keys, 1, Len(keys) - 1), sums),
                          sums)

\* sort_values() is called without kind=, so it sorts with numpy's quicksort,
\* which need not keep the order of equal values: what a build does with
\* them is either to keep their order or, as one order that differs, to
\* reverse it.
TieOrders == {"kept", "reversed"}

\* Series.sort_values(ascending=False)
SortValuesDescending(keys, sums, ties) ==
    SortDescendingStable(IF ties = "kept" THEN keys ELSE Reverse(keys), sums)

\* .head(10)
TopK == 10

FirstRows(s, n) == SubSeq(s, 1, IF Len(s) < n THEN Len(s) ELSE n)

\* groupby('language')['total_engaged_users'].sum()
\*     .sort_values(ascending=False).head(10): the index of the result
TopLanguages(rows, ties) ==
    FirstRows(SortValuesDescending(SortedKeys(rows),
                                   GroupSum(rows, "language", "total_engaged_users"),
                                   ties),
              TopK)

\* The sums per (date, language) of lang_summary, summed again per language,
\* are the sums per language of the window.
render_language_analysis(table, period, compare_previous, ties) ==
    IF Len(table) = 0
    THEN [view |-> "language", rendered |-> FALSE]
    ELSE LET w == Windows(table, period, compare_previous)
             comparison == compare_previous /\ Len(w.previous) > 0
         IN  [view |-> "language",
              rendered |-> TRUE,
              period |-> period,
              compare_previous |-> compare_previous,
              table |-> table,
              window |-> w,
              current_totals |-> GroupSum(w.filtered, "language", "total_engaged_users"),
              top_languages |-> TopLanguages(w.filtered, ties),
              lang_rates |-> LangRates(w.filtered),
              comparison |-> comparison,
              prev_totals |-> IF comparison
                              THEN GroupSum(w.previous, "language", "total_engaged_users")
                              ELSE <<>>,
              prev_rates |-> IF comparison THEN LangRates(w.previous) ELSE <<>>]

(***************************************************************************)
(* render_editor_analysis                                                  *)
(***************************************************************************)
\* groupby('editor').agg(mean, sum, sum), then
\* acceptance_rate = (acceptances / suggestions * 100).fillna(0)
EditorSummary(rows) ==
    [k \in GroupKeys(rows, "editor") |->
        LET g == GroupRows(rows, "editor", k)
            acceptances == SumField(g, "total_code_acceptances")
            suggestions == SumField(g, "total_code_suggestions")
        IN  [total_engaged_users |-> Num(SumField(g, "total_engaged_users"), Len(g)),
             total_code_acceptances |-> acceptances,
             total_code_suggestions |-> suggestions,
             acceptance_rate |-> FillNa0(PandasPercent(acceptances, suggestions))]]

\* The period filter of the editor view: both tables are cut at the start
\* date taken from lang_df, and only when lang_df is not empty.
EditorWindows(lang_table, chat_table, period, compare_previous) ==
    IF Len(lang_table) > 0 /\ period # "All time"
    THEN LET w == Windows(lang_table, period, compare_previous)
         IN  [lang |-> w,
              filtered_chat_df |-> IF Len(chat_table) > 0
                                   THEN FromDate(chat_table, w.start_date)
                                   ELSE chat_table]
    ELSE [lang |-> Windows(lang_table, "All time", compare_previous),
          filtered_chat_df |-> chat_table]

render_editor_analysis(lang_table, chat_table, period, compare_previous) ==
    LET w == EditorWindows(lang_table, chat_table, period, compare_previous)
        comparison == compare_previous /\ Len(w.lang.previous) > 0
    IN  [view |-> "editor",
         rendered |-> Len(w.lang.filtered) > 0,
         period |-> period,
         compare_previous |-> compare_previous,
         table |-> lang_table,
         chat_table |-> chat_table,
         window |-> w.lang,
         filtered_chat_df |-> w.filtered_chat_df,
         editor_summary |-> IF Len(w.lang.filtered) > 0
                            THEN EditorSummary(w.lang.filtered)
                            ELSE <<>>,
         comparison |-> Len(w.lang.filtered) > 0 /\ comparison,
         prev_editor_summary |-> IF Len(w.lang.filtered) > 0 /\ comparison
                                 THEN EditorSummary(w.lang.previous)
                                 ELSE <<>>]

(***************************************************************************)
(* render_chat_interactions                                                *)
(***************************************************************************)
\* A loop body under try/except that appends rows: the rows appended before
\* the first exception stay, and the rest of the record is skipped.
Done(rows) == [rows |-> rows, ok |-> TRUE]
Failed(rows) == [rows |-> rows, ok |-> FALSE]

\* r, then the rest of the loop when r did not fail
Then(r, rest) ==
    IF r.ok THEN [rows |-> r.rows \o rest.rows, ok |-> rest.ok] ELSE r

ChatEvent(row, editor, model) ==
    [date |-> row.date,
     organization |-> row.organization,
     editor |-> editor.name,
     model |-> model.name,
     copy_events |-> Get(model, "total_chat_copy_events", 0),
     insertion_events |-> Get(model, "total_chat_insertion_events", 0),
     total_chats |-> Get(model, "total_chats", 0),
     engaged_users |-> Get(model, "total_engaged_users", 0)]

\* for model in editor['models']: editor['name'] and model['name'] may raise KeyError
RECURSIVE ChatEventModels(_, _, _)
ChatEventModels(row, editor, models) ==
    IF Len(models) = 0 THEN Done(<<>>)
    ELSE IF "name" \notin DOMAIN editor \/ "name" \notin DOMAIN Head(models)
         THEN Failed(<<>>)
         ELSE Then(Done(<<ChatEvent(row, editor, Head(models))>>),
                   ChatEventModels(row, editor, Tail(models)))

\* if 'models' in editor and len(editor['models']) > 0: len(None) raises TypeError
ChatEventEditor(row, editor) ==
    IF "models" \notin DOMAIN editor THEN Done(<<>>)
    ELSE IF ~IsList(editor.models) THEN Failed(<<>>)
    ELSE ChatEventModels(row, editor, editor.models.items)

RECURSIVE ChatEventEditors(_, _)
ChatEventEditors(row, editors) ==
    IF Len(editors) = 0 THEN Done(<<>>)
    ELSE Then(ChatEventEditor(row, Head(editors)),
              ChatEventEditors(row, Tail(editors)))

\* one record of the loop: row['copilot_ide_chat'] raises KeyError without the column
ChatEventsOfRecord(table, row) ==
    IF ~HasColumn(table, "copilot_ide_chat") THEN <<>>
    ELSE LET ide_chat == StructCell(row, "copilot_ide_chat")
         IN  IF IsDict(ide_chat) /\ "editors" \in DOMAIN ide_chat
             THEN IF IsList(ide_chat.editors)
                  THEN ChatEventEditors(row, ide_chat.editors.items).rows
                  ELSE <<>>
             ELSE <<>>

ChatEvents(table) == FlatMap(LAMBDA row : ChatEventsOfRecord(table, row), table)

\* total_copy / total_chats * 100 without the guard
CopyRateUnguarded(copy_events, total_chats) == PandasPercent(copy_events, total_chats)

\* (total_copy / total_chats * 100) if total_chats > 0 else 0
CopyRate(copy_events, total_chats) ==
    IF total_chats > 0 THEN Num(100 * copy_events, total_chats) ELSE Zero

render_chat_interactions(table, period, compare_previous) ==
    LET chat_events == ChatEvents(table)
    IN  IF Len(chat_events) = 0
        THEN [view |-> "chat", rendered |-> FALSE]
        ELSE LET w == Windows(chat_events, period, compare_previous)
                 has_prev == compare_previous /\ Len(w.previous) > 0
                 prev_total_copy == IF has_prev THEN SumField(w.previous, "copy_events") ELSE 0
                 prev_total_insertion ==
                     IF has_prev THEN SumField(w.previous, "insertion_events") ELSE 0
                 prev_total_chats == IF has_prev THEN SumField(w.previous, "total_chats") ELSE 0
                 total_copy == SumField(w.filtered, "copy_events")
                 total_insertion == SumField(w.filtered, "insertion_events")
                 total_chats == SumField(w.filtered, "total_chats")
                 avg_copy_rate == CopyRate(total_copy, total_chats)
                 prev_copy_rate == CopyRate(prev_total_copy, prev_total_chats)
             IN  [view |-> "chat",
                  rendered |-> TRUE,
                  period |-> period,
                  compare_previous |-> compare_previous,
                  table |-> chat_events,
                  window |-> w,
                  total_copy |-> total_copy,
                  total_insertion |-> total_insertion,
                  total_chats |-> total_chats,
                  prev_total_copy |-> prev_total_copy,
                  prev_total_insertion |-> prev_total_insertion,
                  prev_total_chats |-> prev_total_chats,
                  delta_copy |-> IF compare_previous
                                 THEN Delta(total_copy - prev_total_copy) ELSE NoDelta,
                  delta_insertion |-> IF compare_previous
                                      THEN Delta(total_insertion - prev_total_insertion)
                                      ELSE NoDelta,
                  delta_chats |-> IF compare_previous
                                  THEN Delta(total_chats - prev_total_chats) ELSE NoDelta,
                  avg_copy_rate |-> avg_copy_rate,
                  prev_copy_rate |-> prev_copy_rate,
                  delta_rate |-> IF compare_previous
                                 THEN DeltaRate(FracSub(avg_copy_rate, prev_copy_rate))
                                 ELSE NoDelta]

(***************************************************************************)
(* render_github_dotcom_usage                                              *)
(***************************************************************************)
WebChatRow(row, model) ==
    [date |-> row.date,
     organization |-> row.organization,
     feature |-> "Web Chat",
     model |-> model.name,
     is_custom |-> Get(model, "is_custom_model", FALSE),
     total_chats |-> Get(model, "total_chats", 0),
     engaged_users |-> Get(model, "total_engaged_users", 0)]

PullRequestsRow(row, dotcom_pr) ==
    [date |-> row.date,
     organization |-> row.organization,
     feature |-> "Pull Requests",
     model |-> "default",
     is_custom |-> FALSE,
     total_chats |-> 0,
     engaged_users |-> Get(dotcom_pr, "total_engaged_users", 0)]

\* for model in dotcom_chat['models']: model['name'] may raise KeyError
RECURSIVE WebChatModels(_, _)
WebChatModels(row, models) ==
    IF Len(models) = 0 THEN Done(<<>>)
    ELSE IF "name" \notin DOMAIN Head(models) THEN Failed(<<>>)
    ELSE Then(Done(<<WebChatRow(row, Head(models))>>),
              WebChatModels(row, Tail(models)))

\* the "Dotcom Chat" part of the loop body; iterating None raises TypeError
WebChatPart(table, row) ==
    IF ~HasColumn(table, "copilot_dotcom_chat") THEN Failed(<<>>)
    ELSE LET dotcom_chat == StructCell(row, "copilot_dotcom_chat")
         IN  IF IsDict(dotcom_chat) /\ "models" \in DOMAIN dotcom_chat
             THEN IF IsList(dotcom_chat.models)
                  THEN WebChatModels(row, dotcom_chat.models.items)
                  ELSE Failed(<<>>)
             ELSE Done(<<>>)

\* the "Dotcom Pull Requests" part of the loop body
PullRequestsPart(table, row) ==
    IF ~HasColumn(table, "copilot_dotcom_pull_requests") THEN Failed(<<>>)
    ELSE LET dotcom_pr == StructCell(row, "copilot_dotcom_pull_requests")
         IN  IF IsDict(dotcom_pr)
             THEN Done(<<PullRequestsRow(row, dotcom_pr)>>)
             ELSE Done(<<>>)

DotcomDataOfRecord(table, row) ==
    Then(WebChatPart(table, row), PullRequestsPart(table, row)).rows

DotcomData(table) == FlatMap(LAMBDA row : DotcomDataOfRecord(table, row), table)

FeatureRows(rows, feature) == SelectSeq(rows, LAMBDA r : r.feature = feature)

render_github_dotcom_usage(table, period, compare_previous) ==
    LET dotcom_data == DotcomData(table)
    IN  IF Len(dotcom_data) = 0
        THEN [view |-> "dotcom", rendered |-> FALSE]
        ELSE LET w == Windows(dotcom_data, period, compare_previous)
                 has_prev == compare_previous /\ Len(w.previous) > 0
                 prev_web_chats ==
                     IF has_prev
                     THEN SumField(FeatureRows(w.previous, "Web Chat"), "total_chats") ELSE 0
                 prev_web_users ==
                     IF has_prev
                     THEN SumField(FeatureRows(w.previous, "Web Chat"), "engaged_users") ELSE 0
                 prev_pr_users ==
                     IF has_prev
                     THEN SumField(FeatureRows(w.previous, "Pull Requests"), "engaged_users")
                     ELSE 0
                 web_chats == SumField(FeatureRows(w.filtered, "Web Chat"), "total_chats")
                 web_users == SumField(FeatureRows(w.filtered, "Web Chat"), "engaged_users")
                 pr_users == SumField(FeatureRows(w.filtered, "Pull Requests"), "engaged_users")
             IN  [view |-> "dotcom",
                  rendered |-> TRUE,
                  period |-> period,
                  compare_previous |-> compare_previous,
                  table |-> dotcom_data,
                  window |-> w,
                  web_chats |-> web_chats,
                  web_users |-> web_users,
                  pr_users |-> pr_users,
                  prev_web_chats |-> prev_web_chats,
                  prev_web_users |-> prev_web_users,
                  prev_pr_users |-> prev_pr_users,
                  delta_chats |-> IF compare_previous
                                  THEN Delta(web_chats - prev_web_chats) ELSE NoDelta,
                  delta_web_users |-> IF compare_previous
                                      THEN Delta(web_users - prev_web_users) ELSE NoDelta,
                  delta_pr_users |-> IF compare_previous
                                     THEN Delta(pr_users - prev_pr_users) ELSE NoDelta]

(***************************************************************************)
(* Input tables.  Three families of records of the wide table:             *)
(*   ShapeRecords  - every absent / null / empty / filled variant of the   *)
(*                   nested structures, one column at a time;              *)
(*   DateRecords   - filled records on the dates around the window edges;  *)
(*   CountRecords  - one date, every value of the count fields.            *)
(***************************************************************************)
Base(date) == [date |-> date, organization |-> "acme"]

WithUsers(row, active, engaged) ==
    With(With(row, "total_active_users", active), "total_engaged_users", engaged)

Lang(name, engaged, acceptances, suggestions) ==
    [name |-> name,
     total_engaged_users |-> engaged,
     total_code_acceptances |-> acceptances,
     total_code_suggestions |-> suggestions,
     total_code_lines_accepted |-> acceptances,
     total_code_lines_suggested |-> suggestions]

Python == Lang("python", 2, 1, 2)
GoNoCounts == [name |-> "go", total_engaged_users |-> 1]

CompModel(languages) == [name |-> "default", languages |-> languages]
CompEditor(name, models) == [name |-> name, models |-> models]
Completions(editors) == [kind |-> "dict", total_engaged_users |-> 2, editors |-> editors]

FullCompletions == Completions(Lst(<<CompEditor("vscode", Lst(<<CompModel(Lst(<<Python>>))>>))>>))

LanguageLists == {Null, Lst(<<>>), Lst(<<Python>>), Lst(<<Python, GoNoCounts>>)}

CompModels == {[name |-> "default"]} \cup {CompModel(l) : l \in LanguageLists}

CompModelLists ==
    {Null, Lst(<<>>)}
    \cup {Lst(<<m>>) : m \in CompModels}
    \cup {Lst(<<CompModel(Lst(<<>>)), CompModel(Lst(<<Python>>))>>)}

CompEditors ==
    {[name |-> "vscode"], [models |-> Lst(<<CompModel(Lst(<<Python>>))>>)]}
    \cup {CompEditor("vscode", ml) : ml \in CompModelLists}

CompEditorLists ==
    {Null, Lst(<<>>)}
    \cup {Lst(<<e>>) : e \in CompEditors}
    \cup {Lst(<<[name |-> "vscode"],
                CompEditor("jetbrains", Lst(<<CompModel(Lst(<<Python>>))>>))>>)}

CompletionsShapes ==
    {Null, Lst(<<>>), [kind |-> "dict"], [kind |-> "dict", total_engaged_users |-> 2]}
    \cup {Completions(el) : el \in CompEditorLists}

ChatModel(name, chats, copies) ==
    [name |-> name,
     total_engaged_users |-> 1,
     total_chats |-> chats,
     total_chat_copy_events |-> copies,
     total_chat_insertion_events |-> 1]

ChatEditor(name, models) == [name |-> name, models |-> models]
IdeChat(editors) == [kind |-> "dict", total_engaged_users |-> 1, editors |-> editors]

FullIdeChat == IdeChat(Lst(<<ChatEditor("vscode", Lst(<<ChatModel("default", 2, 1)>>))>>))

ChatModelLists ==
    {Null, Lst(<<>>), Lst(<<ChatModel("default", 2, 1)>>),
     Lst(<<ChatModel("default", 2, 1), [name |-> "custom", total_chats |-> 1]>>),
     Lst(<<ChatModel("default", 2, 1), [total_chats |-> 1]>>)}

ChatEditors ==
    {[name |-> "vscode"], [models |-> Lst(<<ChatModel("default", 2, 1)>>)]}
    \cup {ChatEditor("vscode", ml) : ml \in ChatModelLists}

ChatEditorLists ==
    {Null, Lst(<<>>)}
    \cup {Lst(<<e>>) : e \in ChatEditors}
    \cup {Lst(<<ChatEditor("vscode", Lst(<<ChatModel("default", 2, 1)>>)),
                ChatEditor("jetbrains", Lst(<<>>))>>)}

IdeChatShapes ==
    {Null, Lst(<<>>), [kind |-> "dict"]} \cup {IdeChat(el) : el \in ChatEditorLists}

DotcomModel(name, chats) ==
    [name |-> name, is_custom_model |-> name # "default",
     total_chats |-> chats, total_engaged_users |-> 1]

DotcomChat(engaged, models) ==
    [kind |-> "dict", total_engaged_users |-> engaged, models |-> models]

FullDotcomChat == DotcomChat(3, Lst(<<DotcomModel("default", 2)>>))

DotcomModelLists ==
    {Null, Lst(<<>>), Lst(<<DotcomModel("default", 2)>>),
     Lst(<<DotcomModel("default", 2), DotcomModel("custom", 1)>>),
     Lst(<<[name |-> "default"], DotcomModel("custom", 1)>>)}

DotcomChatShapes ==
    {Null, Lst(<<>>), [kind |-> "dict"], [kind |-> "dict", total_engaged_users |-> 3],
     [kind |-> "dict", models |-> Lst(<<DotcomModel("default", 2)>>)]}
    \cup {DotcomChat(3, ml) : ml \in DotcomModelLists}

PullRequests == [kind |-> "dict", total_engaged_users |-> 1]

ShapeRecords ==
    {WithUsers(Base(1), 2, 1)}
    \cup {With(Base(1), "copilot_ide_code_completions", c) : c \in CompletionsShapes}
    \cup {With(Base(1), "copilot_ide_chat", c) : c \in IdeChatShapes}
    \cup {With(Base(1), "copilot_dotcom_chat", c) : c \in DotcomChatShapes}
    \cup {With(With(With(With(Base(1), "copilot_ide_code_completions", FullCompletions),
                         "copilot_ide_chat", FullIdeChat),
                    "copilot_dotcom_chat", FullDotcomChat),
               "copilot_dotcom_pull_requests", PullRequests)}

\* the tables of 1..n rows over a set of records, in date order
Tables(records, n) ==
    {t \in UNION {[1..k -> records] : k \in 1..n} :
        \A i \in 1..(Len(t) - 1) : t[i].date <= t[i + 1].date}

(***************************************************************************)
(* The dashboard: main() extracts the two long tables from the wide table  *)
(* and renders the views; every widget change runs the views again with    *)
(* the selectors the user chose.                                           *)
(***************************************************************************)
NoView == [view |-> "none"]

\* no data.parquet yet, and main() of src/main.py not started
NoSnapshot == [exists |-> FALSE, rows |-> <<>>]
NoRun == [pc |-> "idle"]

DashInit(tables) ==
    /\ df \in tables
    /\ pc = "loaded"
    /\ lang_df = <<>>
    /\ chat_df = <<>>
    /\ view = NoView
    /\ fs = [exists |-> FALSE, files |-> <<>>]
    /\ all_data = [loaded |-> FALSE, records |-> <<>>]
    /\ snapshot = NoSnapshot
    /\ run = NoRun

\* lang_df = extract_language_metrics(df)
ExtractLanguage ==
    /\ pc = "loaded"
    /\ IF extract_language_metrics_raises(df)
       THEN /\ pc' = "error"
            /\ view' = [view |-> "error", raised_by |-> "extract_language_metrics"]
            /\ lang_df' = lang_df
       ELSE /\ pc' = "lang_done"
            /\ lang_df' = extract_language_metrics(df)
            /\ view' = view
    /\ UNCHANGED <<df, chat_df, ingestVars>>

\* chat_df = extract_chat_metrics(df)
ExtractChat ==
    /\ pc = "lang_done"
    /\ IF extract_chat_metrics_raises(df)
       THEN /\ pc' = "error"
            /\ view' = [view |-> "error", raised_by |-> "extract_chat_metrics"]
            /\ chat_df' = chat_df
       ELSE /\ pc' = "ready"
            /\ chat_df' = extract_chat_metrics(df)
            /\ view' = view
    /\ UNCHANGED <<df, lang_df, ingestVars>>

\* one view of the run of main(), with the selectors of its widgets
Render(v) ==
    /\ pc = "ready"
    /\ Len(df) > 0
    /\ view' = v
    /\ pc' = "rendered"
    /\ UNCHANGED <<df, lang_df, chat_df, ingestVars>>

\* a widget changed: the script runs again from the top on the same table
Rerun ==
    /\ pc = "rendered"
    /\ pc' = "loaded"
    /\ lang_df' = <<>>
    /\ chat_df' = <<>>
    /\ view' = NoView
    /\ UNCHANGED <<df, ingestVars>>

RenderOverview ==
    \E scalars \in {"numpy", "python"} : Render(render_overview(df, scalars))

RenderLanguage(periods) ==
    \E period \in periods, compare_previous \in BOOLEAN, ties \in TieOrders :
        Render(render_language_analysis(lang_df, period, compare_previous, ties))

RenderEditor(periods) ==
    \E period \in periods, compare_previous \in BOOLEAN :
        Render(render_editor_analysis(lang_df, chat_df, period, compare_previous))

RenderChat(periods) ==
    \E period \in periods, compare_previous \in BOOLEAN :
        Render(render_chat_interactions(df, period, compare_previous))

RenderDotcom(periods) ==
    \E period \in periods, compare_previous \in BOOLEAN :
        Render(render_github_dotcom_usage(df, period, compare_previous))

\* calculate_acceptance_rate applied to the language table
AcceptanceRate ==
    Render([view |-> "acceptance_rate",
            table |-> lang_df,
            rate |-> calculate_acceptance_rate(lang_df)])

\* The extraction layer on its own.
ExtractNext == ExtractLanguage \/ ExtractChat

ExtractInit == DashInit(Tables(ShapeRecords, MaxShapeRecords))

SpecExtract == ExtractInit /\ [][ExtractNext]_vars

(***************************************************************************)
(* The dashboard on dated tables: days 0..60, the days that lie 0, 6, 7,   *)
(* 13, 14, 27, 28, 29, 30, 59 and 60 days before the last one.  A record   *)
(* carries code completions, chat data (IDE chat, web chat, pull           *)
(* requests), or both.                                                     *)
(***************************************************************************)
EdgeDates == {0, 1, 30, 31, 32, 33, 46, 47, 53, 54, 60}

WithCompletions(row) == With(row, "copilot_ide_code_completions", FullCompletions)

WithChat(row) ==
    With(With(With(row, "copilot_ide_chat", FullIdeChat),
              "copilot_dotcom_chat", FullDotcomChat),
         "copilot_dotcom_pull_requests", PullRequests)

DateRecords ==
    LET rows == {WithUsers(Base(d), 2, 1) : d \in EdgeDates}
    IN  {WithCompletions(r) : r \in rows}
        \cup {WithChat(r) : r \in rows}
        \cup {WithChat(WithCompletions(r)) : r \in rows}

DashNext(periods) ==
    \/ ExtractLanguage
    \/ ExtractChat
    \/ RenderOverview
    \/ RenderLanguage(periods)
    \/ RenderEditor(periods)
    \/ RenderChat(periods)
    \/ RenderDotcom(periods)
    \/ AcceptanceRate
    \/ Rerun

WindowInit == DashInit(Tables(DateRecords, MaxRecords))

WindowNext == DashNext(PeriodOptions)

SpecWindow == WindowInit /\ [][WindowNext]_vars

(***************************************************************************)
(* The dashboard on tables of one date whose counts vary: the acceptances  *)
(* and suggestions of a language, and the active and engaged users of the  *)
(* record (the active users may be missing from the record).               *)
(***************************************************************************)
CountCompletions(editor, acceptances, suggestions) ==
    Completions(Lst(<<CompEditor(editor,
        Lst(<<CompModel(Lst(<<Lang("python", 1, acceptances, suggestions)>>))>>))>>))

CountRecords ==
    {With(WithUsers(Base(1), 2, 1), "copilot_ide_code_completions",
          CountCompletions("vscode", a, s)) : a \in 0..MaxCount, s \in 0..MaxCount}
    \cup {With(WithUsers(Base(1), 2, 1), "copilot_ide_code_completions",
               CountCompletions("jetbrains", a, 0)) : a \in 0..MaxCount}
    \cup {WithUsers(Base(1), active, engaged) :
              active \in {0, MaxCount}, engaged \in {0, MaxCount}}
    \cup {With(Base(1), "total_engaged_users", engaged) : engaged \in {0, MaxCount}}

RatesInit == DashInit(Tables(CountRecords, MaxCountRecords))

RatesNext == DashNext({"All time"})

SpecRates == RatesInit /\ [][RatesNext]_vars

(***************************************************************************)
(* The chat and GitHub.com views on tables whose chat counts vary, on days *)
(* inside the 7-day window of day 20, inside the 7 days before it, and     *)
(* before both.                                                            *)
(***************************************************************************)
ChatDates == {6, 7, 13, 14, 20}

ChatCountRecords ==
    {With(Base(d), "copilot_ide_chat",
          IdeChat(Lst(<<ChatEditor("vscode",
              Lst(<<ChatModel("default", chats, copies)>>))>>))) :
        d \in ChatDates, chats \in {0, MaxCount}, copies \in {0, MaxCount}}
    \cup {With(With(Base(d), "copilot_dotcom_chat",
                    DotcomChat(1, Lst(<<DotcomModel("default", chats)>>))),
               "copilot_dotcom_pull_requests", PullRequests) :
             d \in ChatDates, chats \in {0, MaxCount}}

ChatPeriods == {"Last 7 days", "All time"}

ChatInit == DashInit(Tables(ChatCountRecords, MaxCountRecords))

ChatNext ==
    \/ ExtractLanguage
    \/ ExtractChat
    \/ RenderChat(ChatPeriods)
    \/ RenderDotcom(ChatPeriods)
    \/ Rerun

SpecChat == ChatInit /\ [][ChatNext]_vars

(***************************************************************************)
(* The overview on tables that hold several downloads of one               *)
(* (organization, date): the records differ in download_timestamp and in   *)
(* the active users they report.                                           *)
(***************************************************************************)
DownloadRecords ==
    {With(WithUsers(Base(d), active, 1), "download_timestamp", ts) :
        d \in {1, 2}, ts \in 1..MaxCount, active \in {1, 2}}

LatestInit == DashInit(Tables(DownloadRecords, MaxCountRecords))

LatestNext ==
    \/ ExtractLanguage
    \/ ExtractChat
    \/ RenderOverview
    \/ Rerun

SpecLatest == LatestInit /\ [][LatestNext]_vars

(***************************************************************************)
(* The language ranking on tables of one record that reports 3 or 11       *)
(* languages, each with 1 or 2 engaged users.                              *)
(***************************************************************************)
RankedLanguageLists ==
    UNION {{[i \in 1..n |-> Lang(LanguageNames[i], e[i], 1, 2)] : e \in [1..n -> {1, 2}]} :
              n \in {3, 11}}

RankingTables ==
    {<<With(Base(1), "copilot_ide_code_completions",
            Completions(Lst(<<CompEditor("vscode", Lst(<<CompModel(Lst(l))>>))>>)))>> :
        l \in RankedLanguageLists}

RankingInit == DashInit(RankingTables)

RankingNext ==
    \/ ExtractLanguage
    \/ ExtractChat
    \/ RenderLanguage({"All time"})
    \/ Rerun

SpecRanking == RankingInit /\ [][RankingNext]_vars

(***************************************************************************)
(* Properties of the extraction layer (SpecExtract).                       *)
(***************************************************************************)
\* C1: extract_language_metrics and extract_chat_metrics return without
\* raising for every table, whatever is absent, null or an empty list among
\* the three structures and their 'editors', 'models', 'languages' keys.
C1_NeverRaises == pc # "error"

\* a table of C1's case on which both extractions returned
C1_ReturnsOnEmptyLists ==
    /\ pc = "ready"
    /\ \E i \in 1..Len(df) :
           /\ "copilot_ide_code_completions" \in DOMAIN df[i]
           /\ IsDict(df[i].copilot_ide_code_completions)
           /\ "editors" \in DOMAIN df[i].copilot_ide_code_completions
           /\ IsList(df[i].copilot_ide_code_completions.editors)
           /\ Len(df[i].copilot_ide_code_completions.editors.items) = 0

\* the records of the table that carry a non-empty copilot_dotcom_chat
C9_DotcomRecords ==
    SelectSeq(df, LAMBDA r : /\ "copilot_dotcom_chat" \in DOMAIN r
                             /\ r.copilot_dotcom_chat.kind = "dict"
                             /\ DOMAIN r.copilot_dotcom_chat # {"kind"})

C9_FirstModelChats(d) ==
    IF "models" \in DOMAIN d
    THEN IF d.models.kind = "list"
         THEN IF Len(d.models.items) >= 1
              THEN IF "total_chats" \in DOMAIN d.models.items[1]
                   THEN d.models.items[1].total_chats
                   ELSE 0
              ELSE 0
         ELSE 0
    ELSE 0

\* C9: the dotcom_chat row of a record has the total_chats of the model at
\* index 0 only (0 when the list is absent, null or empty) and the
\* total_engaged_users of the copilot_dotcom_chat structure itself.
C9_DotcomFirstModelOnly ==
    pc = "ready" =>
        LET rows == SelectSeq(chat_df, LAMBDA r : r.feature_type = "dotcom_chat")
            recs == C9_DotcomRecords
        IN  /\ Len(rows) = Len(recs)
            /\ \A i \in 1..Len(recs) :
                   LET d == recs[i].copilot_dotcom_chat
                   IN  /\ rows[i].total_chats = C9_FirstModelChats(d)
                       /\ rows[i].total_engaged_users =
                              (IF "total_engaged_users" \in DOMAIN d
                               THEN d.total_engaged_users ELSE 0)

\* a record with two models whose first counts 2 chats, extracted as 2
C9_TwoModelsExtracted ==
    /\ pc = "ready"
    /\ \E i \in 1..Len(C9_DotcomRecords) :
           LET d == C9_DotcomRecords[i].copilot_dotcom_chat
           IN  /\ "models" \in DOMAIN d
               /\ d.models.kind = "list"
               /\ Len(d.models.items) = 2
               /\ "total_chats" \in DOMAIN d.models.items[1]
               /\ d.models.items[2].total_chats > 0
    /\ \E j \in 1..Len(chat_df) :
           chat_df[j].feature_type = "dotcom_chat" /\ chat_df[j].total_chats = 2

(***************************************************************************)
(* Properties of the period windows (SpecWindow).                          *)
(***************************************************************************)
\* N of an N-day selector
SelectorDays(period) ==
    IF period = "Last 7 days" THEN 7
    ELSE IF period = "Last 14 days" THEN 14
    ELSE 30

\* the largest date of a table that is not empty
LargestDate(table) ==
    CHOOSE m \in 0..60 :
        /\ \E i \in 1..Len(table) : table[i].date = m
        /\ \A i \in 1..Len(table) : table[i].date <= m

\* the views that filter one table of their own by period
SingleTableView ==
    view.view \in {"language", "chat", "dotcom"} /\ view.rendered

\* C2: for an N-day selector the current window is exactly the rows with
\* date >= max_date - (N-1) days, max_date being the largest date of that
\* table; for the all-time selector it is the entire table.
C2_CurrentWindow ==
    SingleTableView =>
        IF view.period = "All time"
        THEN view.window.filtered = view.table
        ELSE LET n == SelectorDays(view.period)
                 m == LargestDate(view.table)
             IN  view.window.filtered =
                     SelectSeq(view.table, LAMBDA r : r.date + (n - 1) >= m)

\* a 7-day window that keeps the row of the last day and cuts a row that
\* lies exactly 7 days before it
C2_RowCutAtEdge ==
    /\ SingleTableView
    /\ view.view = "language"
    /\ view.period = "Last 7 days"
    /\ Len(view.window.filtered) = 1
    /\ \E i \in 1..Len(view.table) :
           view.table[i].date = LargestDate(view.table) - 7

\* C3: with comparison requested and an N-day selector, the previous window
\* is exactly the rows with date in [max_date - (2N-1), max_date - N]: it
\* spans N calendar days, ends the day before the current window starts,
\* and every date in it is earlier than every date of the current window.
C3_PreviousWindow ==
    (SingleTableView /\ view.period # "All time" /\ view.compare_previous) =>
        LET n == SelectorDays(view.period)
            m == LargestDate(view.table)
            w == view.window
        IN  /\ w.has_previous
            /\ w.previous =
                   SelectSeq(view.table,
                             LAMBDA r : m - (2 * n - 1) <= r.date /\ r.date <= m - n)
            /\ w.prev_end - w.prev_start + 1 = n
            /\ w.prev_end + 1 = w.start_date
            /\ w.prev_start = m - (2 * n - 1)
            /\ \A i \in 1..Len(w.previous), j \in 1..Len(w.filtered) :
                   w.previous[i].date < w.filtered[j].date
            /\ \A i \in 1..Len(view.table) :
                   ~(/\ \E j \in 1..Len(w.previous) : w.previous[j] = view.table[i]
                     /\ \E j \in 1..Len(w.filtered) : w.filtered[j] = view.table[i])

\* a comparison whose previous window holds a row of its first day
C3_PreviousWindowFilled ==
    /\ SingleTableView
    /\ view.period = "Last 7 days"
    /\ view.compare_previous
    /\ Len(view.window.previous) > 0
    /\ view.window.previous[1].date = LargestDate(view.table) - 13

\* C4: every period-filtered table is windowed from the largest date of that
\* same table; in the editor analysis the chat table's current window is
\* cut from the chat table's own largest date.
C4_ChatWindowOwnMaxDate ==
    (view.view = "editor" /\ view.period # "All time" /\ Len(view.chat_table) > 0) =>
        view.filtered_chat_df =
            SelectSeq(view.chat_table,
                      LAMBDA r : r.date + (SelectorDays(view.period) - 1)
                                     >= LargestDate(view.chat_table))

C4_EditorViewWithChat ==
    /\ view.view = "editor"
    /\ view.period # "All time"
    /\ Len(view.chat_table) > 0
    /\ Len(view.table) > 0
    /\ LargestDate(view.chat_table) # LargestDate(view.table)

\* C5: with the all-time selector no previous window is computed and no
\* delta or previous-period value is produced in any view, also when
\* 'compare with previous period' is switched on.
C5_AllTimeNoComparison ==
    (view.view \in {"language", "editor", "chat", "dotcom"}
     /\ view.rendered /\ view.period = "All time") =>
        /\ ~view.window.has_previous
        /\ Len(view.window.previous) = 0
        /\ view.view \in {"language", "editor"} => ~view.comparison
        /\ view.view = "chat" =>
               /\ ~view.delta_copy.shown
               /\ ~view.delta_insertion.shown
               /\ ~view.delta_chats.shown
               /\ ~view.delta_rate.shown
        /\ view.view = "dotcom" =>
               /\ ~view.delta_chats.shown
               /\ ~view.delta_web_users.shown
               /\ ~view.delta_pr_users.shown

C5_AllTimeWithCompare ==
    /\ view.view \in {"language", "editor", "chat", "dotcom"}
    /\ view.rendered
    /\ view.period = "All time"
    /\ view.compare_previous

(***************************************************************************)
(* Properties of the rates (SpecRates).                                    *)
(***************************************************************************)
\* the groupings of language rows a view computed an acceptance rate for:
\* the rows of each group and the rate
RateGroups ==
    IF view.view = "acceptance_rate"
    THEN {[rows |-> view.table, rate |-> view.rate]}
    ELSE IF view.view = "language" /\ view.rendered
    THEN {[rows |-> SelectSeq(view.window.filtered, LAMBDA r : r.language = k),
           rate |-> view.lang_rates[k]] : k \in DOMAIN view.lang_rates}
    ELSE IF view.view = "editor" /\ view.rendered
    THEN {[rows |-> SelectSeq(view.window.filtered, LAMBDA r : r.editor = k),
           rate |-> view.editor_summary[k].acceptance_rate] :
              k \in DOMAIN view.editor_summary}
    ELSE {}

RECURSIVE Total(_, _)
Total(rows, field) ==
    IF rows = <<>> THEN 0 ELSE rows[1][field] + Total(Tail(rows), field)

\* C6: a grouping whose summed total_code_suggestions is 0 has an acceptance
\* rate of exactly 0, also when its summed acceptances are greater than 0.
C6_ZeroSuggestionsZeroRate ==
    \A g \in RateGroups :
        Total(g.rows, "total_code_suggestions") = 0 =>
            g.rate.kind = "num" /\ g.rate.num = 0

C6_AcceptancesWithoutSuggestions ==
    \E g \in RateGroups :
        /\ Total(g.rows, "total_code_suggestions") = 0
        /\ Total(g.rows, "total_code_acceptances") > 0

\* x is a number in [0, 100]
InPercentRange(x) ==
    x.kind = "num" /\ x.den > 0 /\ 0 <= x.num /\ x.num <= 100 * x.den

\* x is the number 100 * a / b
IsPercentOf(x, a, b) ==
    x.kind = "num" /\ x.den # 0 /\ x.num * b = 100 * a * x.den

\* C7 as claimed: a grouping whose summed total_code_suggestions is greater
\* than 0 has an acceptance rate in [0, 100], for every table.
C7_RateInRange ==
    \A g \in RateGroups :
        Total(g.rows, "total_code_suggestions") > 0 => InPercentRange(g.rate)

\* C7 as amended: a grouping whose summed total_code_suggestions is greater
\* than 0 has the acceptance rate 100 x sum(acceptances) / sum(suggestions),
\* which lies in [0, 100] when no row of the grouping has more acceptances
\* than suggestions.
C7_RateInRangeWhenAcceptedWithinSuggested ==
    \A g \in RateGroups :
        Total(g.rows, "total_code_suggestions") > 0 =>
            /\ IsPercentOf(g.rate, Total(g.rows, "total_code_acceptances"),
                           Total(g.rows, "total_code_suggestions"))
            /\ (\A i \in 1..Len(g.rows) :
                    /\ 0 <= g.rows[i].total_code_acceptances
                    /\ g.rows[i].total_code_acceptances
                           <= g.rows[i].total_code_suggestions)
               => InPercentRange(g.rate)

\* a per-language grouping of two rows, every suggestion of which was accepted
C7_FullAcceptance ==
    /\ view.view = "language"
    /\ \E g \in RateGroups :
           /\ Len(g.rows) = 2
           /\ g.rows[1].total_code_suggestions > 0
           /\ g.rows[2].total_code_suggestions > 0
           /\ Total(g.rows, "total_code_suggestions")
                  = Total(g.rows, "total_code_acceptances")
           /\ g.rate.num = 100 * g.rate.den

\* C8: the engagement rate of the latest record is 100 x engaged / active
\* with the denominator floored at 1, a number also when total_active_users
\* is 0 or absent.
C8_EngagementRateFloored ==
    view.view = "overview" =>
        LET r == view.latest_data
            engaged == IF "total_engaged_users" \in DOMAIN r
                       THEN r.total_engaged_users ELSE 0
            active == IF "total_active_users" \in DOMAIN r
                      THEN r.total_active_users ELSE 0
        IN  IsPercentOf(view.engagement_rate, engaged,
                        IF active < 1 THEN 1 ELSE active)

C8_NoActiveUsers ==
    /\ view.view = "overview"
    /\ "total_active_users" \in DOMAIN view.latest_data
    /\ view.latest_data.total_active_users = 0

(***************************************************************************)
(* Properties of the comparison metrics (SpecChat).                        *)
(***************************************************************************)
\* the rows of the view's table in its current window, from the selector
ViewCurrentRows ==
    IF view.period = "All time" THEN view.table
    ELSE SelectSeq(view.table,
             LAMBDA r : r.date > LargestDate(view.table) - SelectorDays(view.period))

\* the rows of the view's table in its previous window, from the selector
ViewPreviousRows ==
    IF view.period = "All time" THEN <<>>
    ELSE SelectSeq(view.table,
             LAMBDA r : /\ r.date > LargestDate(view.table) - 2 * SelectorDays(view.period)
                        /\ r.date <= LargestDate(view.table) - SelectorDays(view.period))

OfFeature(rows, feature) == SelectSeq(rows, LAMBDA r : r.feature = feature)

\* d is shown and is the signed difference of the two totals
IsDeltaOf(d, current_total, previous_total) ==
    d.shown /\ d.value = current_total - previous_total

\* C18: with the comparison on, the delta of each total of the chat view and
\* of the GitHub.com view is the total of the current window minus the total
\* of the previous window; the total of a previous window without rows is 0,
\* so the delta is then the current total itself.
C18_DeltaIsDifference ==
    /\ (view.view = "chat" /\ view.rendered /\ view.compare_previous) =>
           /\ IsDeltaOf(view.delta_copy, Total(ViewCurrentRows, "copy_events"),
                        Total(ViewPreviousRows, "copy_events"))
           /\ IsDeltaOf(view.delta_insertion, Total(ViewCurrentRows, "insertion_events"),
                        Total(ViewPreviousRows, "insertion_events"))
           /\ IsDeltaOf(view.delta_chats, Total(ViewCurrentRows, "total_chats"),
                        Total(ViewPreviousRows, "total_chats"))
           /\ ViewPreviousRows = <<>> =>
                  /\ view.delta_copy.value = view.total_copy
                  /\ view.delta_insertion.value = view.total_insertion
                  /\ view.delta_chats.value = view.total_chats
    /\ (view.view = "dotcom" /\ view.rendered /\ view.compare_previous) =>
           /\ IsDeltaOf(view.delta_chats,
                        Total(OfFeature(ViewCurrentRows, "Web Chat"), "total_chats"),
                        Total(OfFeature(ViewPreviousRows, "Web Chat"), "total_chats"))
           /\ IsDeltaOf(view.delta_web_users,
                        Total(OfFeature(ViewCurrentRows, "Web Chat"), "engaged_users"),
                        Total(OfFeature(ViewPreviousRows, "Web Chat"), "engaged_users"))
           /\ IsDeltaOf(view.delta_pr_users,
                        Total(OfFeature(ViewCurrentRows, "Pull Requests"), "engaged_users"),
                        Total(OfFeature(ViewPreviousRows, "Pull Requests"), "engaged_users"))
           /\ ViewPreviousRows = <<>> =>
                  /\ view.delta_chats.value = view.web_chats
                  /\ view.delta_web_users.value = view.web_users
                  /\ view.delta_pr_users.value = view.pr_users

\* a 7-day comparison of the chat view whose previous window holds more
\* chats than the current one
C18_FewerChatsThanBefore ==
    /\ view.view = "chat"
    /\ view.rendered
    /\ view.compare_previous
    /\ view.period = "Last 7 days"
    /\ Len(view.window.previous) > 0
    /\ view.total_chats = 0
    /\ view.delta_chats.value < 0

\* C19: the copy rate of the current window and of the previous window of
\* the chat view is 100 x sum(copy_events) / sum(total_chats) when
\* sum(total_chats) > 0 and exactly 0 when sum(total_chats) = 0; it is
\* always a finite number.
C19_CopyRateGuarded ==
    (view.view = "chat" /\ view.rendered) =>
        /\ IF Total(ViewCurrentRows, "total_chats") > 0
           THEN IsPercentOf(view.avg_copy_rate, Total(ViewCurrentRows, "copy_events"),
                            Total(ViewCurrentRows, "total_chats"))
           ELSE view.avg_copy_rate.kind = "num" /\ view.avg_copy_rate.num = 0
        /\ view.compare_previous =>
               IF Total(ViewPreviousRows, "total_chats") > 0
               THEN IsPercentOf(view.prev_copy_rate, Total(ViewPreviousRows, "copy_events"),
                                Total(ViewPreviousRows, "total_chats"))
               ELSE view.prev_copy_rate.kind = "num" /\ view.prev_copy_rate.num = 0

\* copies counted in a window without chats, in the current window and in
\* the previous one
C19_CopiesWithoutChats ==
    /\ view.view = "chat"
    /\ view.rendered
    /\ view.compare_previous
    /\ Len(view.window.previous) > 0
    /\ view.total_chats = 0
    /\ view.total_copy > 0
    /\ view.prev_total_chats = 0
    /\ view.prev_total_copy > 0

(***************************************************************************)
(* Properties of the latest record (SpecLatest).                           *)
(***************************************************************************)
\* the records of the table on its largest date
C17_LatestDateRecords ==
    SelectSeq(df, LAMBDA r : r.date = LargestDate(df))

\* C17: when the records of the latest date differ in download_timestamp,
\* the overview takes its metrics from the one with the most recent
\* download_timestamp.
C17_LatestUsesMostRecentDownload ==
    view.view = "overview" =>
        \A i \in 1..Len(C17_LatestDateRecords) :
            C17_LatestDateRecords[i].download_timestamp
                <= view.latest_data.download_timestamp

\* the overview of a table whose latest date has two downloads, the older
\* one stored first
C17_OlderDownloadFirst ==
    /\ view.view = "overview"
    /\ Len(C17_LatestDateRecords) = 2
    /\ C17_LatestDateRecords[1].download_timestamp
           < C17_LatestDateRecords[2].download_timestamp
    /\ C17_LatestDateRecords[1].total_active_users
           # C17_LatestDateRecords[2].total_active_users

(***************************************************************************)
(* Properties of the language ranking (SpecRanking).                       *)
(***************************************************************************)
\* the languages of the view's current window
C20_Languages == {view.window.filtered[i].language : i \in 1..Len(view.window.filtered)}

\* the summed total_engaged_users of a language in the current window
C20_Sum(k) ==
    Total(SelectSeq(view.window.filtered, LAMBDA r : r.language = k), "total_engaged_users")

\* the place of a language among the sorted group keys
C20_KeyRank(k) == CHOOSE i \in 1..Len(LanguageNames) : LanguageNames[i] = k

\* the languages the ranking shows
C20_Shown == {view.top_languages[i] : i \in 1..Len(view.top_languages)}

\* the ranking holds the 10 languages with the largest sums (all of them
\* when there are fewer), each once, by descending sum
C20_TopByDescendingSum ==
    (view.view = "language" /\ view.rendered) =>
        /\ C20_Shown \subseteq C20_Languages
        /\ Cardinality(C20_Shown) = Len(view.top_languages)
        /\ Len(view.top_languages)
               = (IF Cardinality(C20_Languages) < 10 THEN Cardinality(C20_Languages) ELSE 10)
        /\ \A i, j \in 1..Len(view.top_languages) :
               i < j => C20_Sum(view.top_languages[i]) >= C20_Sum(view.top_languages[j])
        /\ \A k \in C20_Languages \ C20_Shown :
               \A i \in 1..Len(view.top_languages) :
                   C20_Sum(view.top_languages[i]) >= C20_Sum(k)

\* C20: the ranking of the languages is by descending summed
\* total_engaged_users, keeps at most 10 of them, and puts languages with
\* equal sums in the order of the group keys, also across the cut at 10.
C20_TopLanguagesStable ==
    /\ C20_TopByDescendingSum
    /\ (view.view = "language" /\ view.rendered) =>
           /\ \A i, j \in 1..Len(view.top_languages) :
                  (i < j /\ C20_Sum(view.top_languages[i]) = C20_Sum(view.top_languages[j]))
                      => C20_KeyRank(view.top_languages[i]) < C20_KeyRank(view.top_languages[j])
           /\ \A k \in C20_Languages \ C20_Shown :
                  \A i \in 1..Len(view.top_languages) :
                      C20_Sum(view.top_languages[i]) = C20_Sum(k)
                          => C20_KeyRank(view.top_languages[i]) < C20_KeyRank(k)

\* a ranking of 11 languages, cut at 10, with two languages of equal sum
C20_TiesAmongEleven ==
    /\ view.view = "language"
    /\ view.rendered
    /\ Cardinality(C20_Languages) = 11
    /\ Len(view.top_languages) = 10
    /\ C20_Sum(view.top_languages[1]) = C20_Sum(view.top_languages[2])
    /\ C20_Sum(view.top_languages[10]) < C20_Sum(view.top_languages[1])

(***************************************************************************)
(* Ingestion: load_json_files.  A string that the code takes apart (a file *)
(* stem, an organization name) is a sequence of characters.  A file is its *)
(* stem and its content: a JSON object, or text that json.load rejects.    *)
(* The files of fs are in the order the three nested globs visit them.     *)
(***************************************************************************)
HasDash(filename) == \E i \in 1..Len(filename) : filename[i] = "-"

FirstDash(filename) ==
    CHOOSE i \in 1..Len(filename) :
        filename[i] = "-" /\ \A j \in 1..(i - 1) : filename[j] # "-"

LastDash(filename) ==
    CHOOSE i \in 1..Len(filename) :
        filename[i] = "-" /\ \A j \in (i + 1)..Len(filename) : filename[j] # "-"

\* filename.rsplit('-', 1)[1]
OrgAfterLastDash(filename) ==
    SubSeq(filename, LastDash(filename) + 1, Len(filename))

\* filename.split('-', 1)[1]: everything after the first dash
OrgFromFilename(filename) ==
    SubSeq(filename, FirstDash(filename) + 1, Len(filename))

\* the body of the try block for one file that parses: data, repaired
LoadedRecord(file) ==
    IF "organization" \notin DOMAIN file.data
    THEN IF HasDash(file.stem)
         THEN With(file.data, "organization", OrgFromFilename(file.stem))
         ELSE file.data
    ELSE file.data

\* the loops given up at the first file whose json.load raises
RECURSIVE LoadAllUntilFailure(_)
LoadAllUntilFailure(files) ==
    IF Len(files) = 0 THEN <<>>
    ELSE IF Head(files).parses
         THEN <<LoadedRecord(Head(files))>> \o LoadAllUntilFailure(Tail(files))
         ELSE <<>>

\* all_data after the loops: a file whose json.load raises is reported and skipped
RECURSIVE LoadAll(_)
LoadAll(files) ==
    IF Len(files) = 0 THEN <<>>
    ELSE IF Head(files).parses
         THEN <<LoadedRecord(Head(files))>> \o LoadAll(Tail(files))
         ELSE LoadAll(Tail(files))

\* load_json_files(data_dir): the rows of the DataFrame it returns
load_json_files(dir) ==
    IF ~dir.exists THEN <<>> ELSE LoadAll(dir.files)

LoadJsonFiles ==
    /\ ~all_data.loaded
    /\ all_data' = [loaded |-> TRUE, records |-> load_json_files(fs)]
    /\ UNCHANGED <<fs, dashVars, snapshot, run>>

StemChars == {"a", "-"}

Stem15Acme == <<"1", "5", "-", "a", "c", "m", "e">>
Stem15AcmeCorp == <<"1", "5", "-", "a", "c", "m", "e", "-", "c", "o", "r", "p">>

Stems ==
    UNION {[1..k -> StemChars] : k \in 1..MaxStem} \cup {Stem15Acme, Stem15AcmeCorp}

Octo == <<"o", "c", "t", "o">>

Files ==
    {[stem |-> st, parses |-> TRUE, data |-> WithUsers([date |-> 1], 2, 1)] : st \in Stems}
    \cup {[stem |-> st, parses |-> TRUE,
           data |-> With(WithUsers([date |-> 1], 2, 1), "organization", Octo)] : st \in Stems}
    \cup {[stem |-> st, parses |-> FALSE, data |-> <<>>] : st \in Stems}

Directories ==
    {[exists |-> FALSE, files |-> <<>>]}
    \cup {[exists |-> TRUE, files |-> fl] :
             fl \in UNION {[1..k -> Files] : k \in 0..MaxFiles}}

IngestInit ==
    /\ fs \in Directories
    /\ all_data = [loaded |-> FALSE, records |-> <<>>]
    /\ snapshot = NoSnapshot
    /\ run = NoRun
    /\ df = <<>>
    /\ pc = "loaded"
    /\ lang_df = <<>>
    /\ chat_df = <<>>
    /\ view = NoView

IngestNext == LoadJsonFiles

SpecIngest == IngestInit /\ [][IngestNext]_vars

(***************************************************************************)
(* Properties of the ingestion (SpecIngest).                               *)
(***************************************************************************)
\* the files of the directory that parse, in visiting order
C10_ParsedFiles == SelectSeq(fs.files, LAMBDA f : f.parses)

\* C10: the organization of a loaded record is the 'organization' of its
\* JSON body when the key is present; otherwise it is the part of the file
\* stem after the first '-': 15-acme gives acme, 15-acme-corp gives
\* acme-corp.
C10_OrganizationOfRecord ==
    all_data.loaded =>
        /\ Len(all_data.records) = Len(C10_ParsedFiles)
        /\ \A i \in 1..Len(C10_ParsedFiles) :
               LET f == C10_ParsedFiles[i]
                   rec == all_data.records[i]
               IN  IF "organization" \in DOMAIN f.data
                   THEN rec.organization = f.data.organization
                   ELSE /\ \A k \in 1..Len(f.stem) :
                               (f.stem[k] = "-" /\ \A j \in 1..(k - 1) : f.stem[j] # "-")
                               => /\ "organization" \in DOMAIN rec
                                  /\ Len(rec.organization) = Len(f.stem) - k
                                  /\ \A j \in 1..(Len(f.stem) - k) :
                                         rec.organization[j] = f.stem[k + j]
                        /\ f.stem = Stem15Acme
                               => rec.organization = <<"a", "c", "m", "e">>
                        /\ f.stem = Stem15AcmeCorp
                               => rec.organization
                                      = <<"a", "c", "m", "e", "-", "c", "o", "r", "p">>

\* 15-acme-corp.json without an organization in its body, loaded
C10_AcmeCorpLoaded ==
    /\ all_data.loaded
    /\ Len(fs.files) = 1
    /\ fs.files[1].stem = Stem15AcmeCorp
    /\ fs.files[1].parses
    /\ "organization" \notin DOMAIN fs.files[1].data
    /\ Len(all_data.records) = 1
    /\ all_data.records[1].organization = <<"a", "c", "m", "e", "-", "c", "o", "r", "p">>


(***************************************************************************)
(* Ingestion: main() of src/main.py.  A run globs and loads the files,     *)
(* returns when the table is empty, and otherwise sorts the table, writes  *)
(* data.parquet and prints the summary.  The script is run again and       *)
(* again, on a source directory that may have changed in between.          *)
(***************************************************************************)
\* a table taken as holding data whatever its rows
NeverEmpty(rows) == FALSE

\* DataFrame.empty
Empty(rows) == Len(rows) = 0

\* r put into a table in date order, behind the rows whose date is not later
RECURSIVE InsertByDate(_, _)
InsertByDate(r, sorted) ==
    IF sorted = <<>> THEN <<r>>
    ELSE IF Head(sorted).date <= r.date
         THEN <<Head(sorted)>> \o InsertByDate(r, Tail(sorted))
         ELSE <<r>> \o sorted

\* the rows by ascending date, equal dates in the order of the rows
RECURSIVE SortByDateStable(_)
SortByDateStable(rows) ==
    IF rows = <<>> THEN <<>>
    ELSE InsertByDate(rows[Len(rows)], SortByDateStable(SubSeq(rows, 1, Len(rows) - 1)))

\* df.sort_values('date'): no kind= is given, so the order of equal dates is
\* the one numpy's quicksort leaves (see TieOrders)
sort_values(rows, ties) ==
    SortByDateStable(IF ties = "kept" THEN rows ELSE Reverse(rows))

\* process_data(df); the dates are day numbers before and after to_datetime
process_data(rows, ties) ==
    IF Empty(rows) THEN rows
    ELSE IF HasColumn(rows, "date") THEN sort_values(rows, ties)
    ELSE rows

\* ', '.join(df['organization'].unique()): the value of a record without
\* organization is NaN in the column, and joining a float raises TypeError
JoinOrganizationsRaises(rows) ==
    /\ HasColumn(rows, "organization")
    /\ \E i \in 1..Len(rows) : "organization" \notin DOMAIN rows[i]

\* data.parquet with the rows of an earlier run kept in front
to_parquet_append(old, rows) == [exists |-> TRUE, rows |-> old.rows \o rows]

\* df.to_parquet(parquet_file, index=False): the file is written anew
to_parquet(old, rows) == [exists |-> TRUE, rows |-> rows]

\* the orders in which the three nested globs may visit the files
Listings(files) ==
    {[i \in 1..Len(files) |-> files[p[i]]] :
        p \in {q \in [1..Len(files) -> 1..Len(files)] :
                  \A i, j \in 1..Len(files) : i # j => q[i] # q[j]}}

\* df = load_json_files(args.data_dir); if df.empty: return
MainLoad ==
    /\ run.pc = "idle"
    /\ \E listing \in Listings(fs.files) :
           LET rows == load_json_files([fs EXCEPT !.files = listing])
           IN  /\ all_data' = [loaded |-> TRUE, records |-> rows]
               /\ run' = [run EXCEPT !.pc = IF Empty(rows) THEN "no_data" ELSE "loaded",
                                     !.df = rows,
                                     !.listing = listing,
                                     !.before = snapshot]
    /\ UNCHANGED <<fs, snapshot, dashVars>>

\* df = process_data(df)
MainProcess ==
    /\ run.pc = "loaded"
    /\ run' = [run EXCEPT !.pc = "processed", !.df = process_data(run.df, run.ties)]
    /\ UNCHANGED <<fs, all_data, snapshot, dashVars>>

\* save_reports(df, args.output_dir)
MainSave ==
    /\ run.pc = "processed"
    /\ IF Empty(run.df)
       THEN /\ snapshot' = snapshot
            /\ run' = [run EXCEPT !.pc = "saved"]
       ELSE /\ snapshot' = to_parquet(snapshot, run.df)
            /\ run' = [run EXCEPT !.pc = IF JoinOrganizationsRaises(run.df)
                                         THEN "crashed" ELSE "saved"]
    /\ UNCHANGED <<fs, all_data, dashVars>>

\* print_summary(df), and the end of main()
MainSummary ==
    /\ run.pc = "saved"
    /\ run' = [run EXCEPT !.pc = IF ~Empty(run.df) /\ JoinOrganizationsRaises(run.df)
                                 THEN "crashed" ELSE "done"]
    /\ UNCHANGED <<fs, all_data, snapshot, dashVars>>

RunEnded == run.pc \in {"done", "no_data", "crashed"}

\* the script is started again on the same source directory
RunAgain ==
    /\ RunEnded
    /\ run' = [run EXCEPT !.pc = "idle", !.df = <<>>, !.listing = <<>>,
                          !.before = snapshot, !.unchanged = TRUE]
    /\ all_data' = [loaded |-> FALSE, records |-> <<>>]
    /\ UNCHANGED <<fs, snapshot, dashVars>>

\* the files of a run: DD-<org>.json without and with an organization in the
\* body, a stem without '-', a file of the next day, and a file that
\* json.load rejects
StemDay15 == <<"1", "5">>
Stem15A == <<"1", "5", "-", "a">>
Stem16A == <<"1", "6", "-", "a">>

RunFiles ==
    <<[stem |-> Stem15A, parses |-> TRUE, data |-> WithUsers([date |-> 1, download_timestamp |-> 1], 1, 1)],
      [stem |-> StemDay15, parses |-> TRUE, data |-> WithUsers([date |-> 1, download_timestamp |-> 1], 2, 1)],
      [stem |-> Stem15A, parses |-> TRUE,
       data |-> With(WithUsers([date |-> 1, download_timestamp |-> 1], 3, 1), "organization", Octo)],
      [stem |-> Stem16A, parses |-> TRUE, data |-> WithUsers([date |-> 2, download_timestamp |-> 1], 4, 1)],
      [stem |-> Stem15A, parses |-> FALSE, data |-> <<>>]>>

\* the source directories: absent, or up to MaxRunFiles of the files
RunDirectories ==
    {[exists |-> FALSE, files |-> <<>>]}
    \cup UNION {{[exists |-> TRUE, files |-> [i \in 1..k |-> RunFiles[q[i]]]] :
                    q \in {p \in [1..k -> 1..Len(RunFiles)] :
                              \A i \in 1..(k - 1) : p[i] <= p[i + 1]}} :
                   k \in 0..MaxRunFiles}

\* the source directory changed, and the script is started again
SourceChanges ==
    /\ RunEnded
    /\ fs' \in RunDirectories \ {fs}
    /\ run' = [run EXCEPT !.pc = "idle", !.df = <<>>, !.listing = <<>>,
                          !.before = snapshot, !.unchanged = FALSE]
    /\ all_data' = [loaded |-> FALSE, records |-> <<>>]
    /\ UNCHANGED <<snapshot, dashVars>>

RunInit ==
    /\ fs \in RunDirectories
    /\ all_data = [loaded |-> FALSE, records |-> <<>>]
    /\ snapshot = NoSnapshot
    /\ \E ties \in TieOrders :
           run = [pc |-> "idle", df |-> <<>>, listing |-> <<>>, ties |-> ties,
                  before |-> NoSnapshot, unchanged |-> FALSE]
    /\ df = <<>>
    /\ pc = "loaded"
    /\ lang_df = <<>>
    /\ chat_df = <<>>
    /\ view = NoView

RunNext ==
    \/ MainLoad
    \/ MainProcess
    \/ MainSave
    \/ MainSummary
    \/ RunAgain
    \/ SourceChanges

SpecRun == RunInit /\ [][RunNext]_vars

(***************************************************************************)
(* Properties of the ingestion runs (SpecRun).                             *)
(***************************************************************************)
\* the files of the source directory that parse
ParsedFiles(files) == SelectSeq(files, LAMBDA f : f.parses)

\* how often x occurs in a sequence
Occurrences(s, x) == Cardinality({i \in 1..Len(s) : s[i] = x})

\* two sequences hold the same elements, each as often
SameElements(s, t) ==
    /\ Len(s) = Len(t)
    /\ \A i \in 1..Len(s) : Occurrences(s, s[i]) = Occurrences(t, s[i])

\* rec is the record loaded from file f: the body of f, with at most an
\* organization added
IsRecordOf(rec, f) ==
    /\ \A k \in DOMAIN f.data : k \in DOMAIN rec /\ rec[k] = f.data[k]
    /\ DOMAIN rec \subseteq DOMAIN f.data \cup {"organization"}

\* the run got past load_json_files
RunLoaded == run.pc # "idle"

\* the run wrote data.parquet
RunWrote == run.pc \in {"saved", "done", "crashed"}

\* C11: a record whose body has no organization and whose stem has no '-'
\* is loaded without an organization, and its run goes through processing,
\* saving and the summary without a fatal error, whatever the other records
\* of the run are.
C11_MissingOrganizationRunCompletes ==
    RunLoaded =>
        /\ \A i \in 1..Len(ParsedFiles(run.listing)) :
               LET f == ParsedFiles(run.listing)[i]
               IN  ("organization" \notin DOMAIN f.data /\ ~HasDash(f.stem))
                       => "organization" \notin DOMAIN all_data.records[i]
        /\ run.pc # "crashed"

\* a run made of one record without organization, ended
C11_OnlyRecordWithoutOrganization ==
    /\ run.pc = "done"
    /\ Len(run.df) = 1
    /\ "organization" \notin DOMAIN run.df[1]
    /\ snapshot.rows = run.df

\* C12: whatever the files are and whatever order they are visited in, the
\* table load_json_files returns holds exactly one record for each file that
\* parsed, in visiting order, and none for the files that failed.
C12_OneRecordPerParsedFile ==
    RunLoaded =>
        /\ SameElements(run.listing, fs.files)
        /\ Len(all_data.records) = Len(ParsedFiles(fs.files))
        /\ \A i \in 1..Len(ParsedFiles(run.listing)) :
               IsRecordOf(all_data.records[i], ParsedFiles(run.listing)[i])

\* a file that fails, visited before a file that parses
C12_FailureVisitedFirst ==
    /\ RunLoaded
    /\ Len(run.listing) = 2
    /\ ~run.listing[1].parses
    /\ run.listing[2].parses
    /\ Len(all_data.records) = 1

\* the snapshot holds the records of the files of the source directory that
\* parse, and nothing else
SnapshotOfThisRun ==
    /\ snapshot.exists
    /\ Len(snapshot.rows) = Len(ParsedFiles(fs.files))
    /\ \E listing \in Listings(fs.files) :
           \E rows \in Listings(snapshot.rows) :
               \A i \in 1..Len(rows) : IsRecordOf(rows[i], ParsedFiles(listing)[i])

\* C13 as claimed: after every run, also one that finds no data directory
\* or no file that parses, the snapshot holds exactly the records found
\* during that run and nothing of earlier runs.
C13_SnapshotReplacedByEveryRun ==
    RunEnded =>
        IF Len(ParsedFiles(fs.files)) = 0
        THEN snapshot.rows = <<>>
        ELSE SnapshotOfThisRun

\* C13 as the code has it: a run that loads at least one record replaces the
\* snapshot by exactly the records of that run; a run that finds no data
\* directory or no file that parses leaves the snapshot as it was.
C13_SnapshotReplacedByRunWithData ==
    RunEnded =>
        IF Len(ParsedFiles(fs.files)) = 0
        THEN snapshot = run.before
        ELSE SnapshotOfThisRun

\* a run that replaced a snapshot holding other records
C13_EarlierSnapshotReplaced ==
    /\ run.pc = "done"
    /\ run.before.exists
    /\ ~SameElements(run.before.rows, snapshot.rows)
    /\ Len(run.before.rows) = Len(snapshot.rows)

\* C14: when the data directory does not exist, or holds no file that
\* parses, load_json_files returns an empty table and the run returns
\* without processing, without touching the snapshot and without raising.
C14_NoDataRunDoesNothing ==
    (RunLoaded /\ (~fs.exists \/ Len(ParsedFiles(fs.files)) = 0)) =>
        /\ all_data.records = <<>>
        /\ run.pc = "no_data"
        /\ run.df = <<>>
        /\ snapshot = run.before

\* a run on a directory of files that all fail, with a snapshot of an
\* earlier run in place
C14_OnlyFailingFiles ==
    /\ run.pc = "no_data"
    /\ fs.exists
    /\ Len(fs.files) > 0
    /\ snapshot.exists
    /\ Len(snapshot.rows) > 0

\* the rows of a table on one date
OnDate(rows, d) == SelectSeq(rows, LAMBDA r : r.date = d)

\* the run got past process_data
RunProcessed == run.pc \in {"processed", "saved", "done", "crashed"}

\* process_data returns the records by ascending date
C15_SortedByDate ==
    RunProcessed =>
        /\ SameElements(run.df, all_data.records)
        /\ \A i, j \in 1..Len(run.df) : i < j => run.df[i].date <= run.df[j].date

\* C15: process_data returns the records sorted by date ascending, and
\* records of the same date keep the order in which they were loaded.
C15_SortedByDateStable ==
    /\ C15_SortedByDate
    /\ RunProcessed =>
           \A i \in 1..Len(run.df) :
               OnDate(run.df, run.df[i].date) = OnDate(all_data.records, run.df[i].date)

\* two different records of one date, loaded and processed
C15_TwoRecordsOfOneDate ==
    /\ RunProcessed
    /\ Len(all_data.records) = 2
    /\ all_data.records[1].date = all_data.records[2].date
    /\ all_data.records[1] # all_data.records[2]

\* C16: a run on the source directory of the run before it, unchanged,
\* writes the snapshot the run before it wrote: the same rows in the same
\* order, whatever order the directory listing returned the files in.
C16_SameSnapshotOnUnchangedSource ==
    (RunWrote /\ run.unchanged) => snapshot = run.before

\* a second run on an unchanged directory of two files of one date
C16_SecondRunOnSameDirectory ==
    /\ RunWrote
    /\ run.unchanged
    /\ Len(fs.files) = 2
    /\ fs.files[1] # fs.files[2]
    /\ Len(snapshot.rows) = 2
    /\ snapshot.rows[1].date = snapshot.rows[2].date


(***************************************************************************)
(* The language ranking on tables of one or two records that report go,    *)
(* python or both, in either order, each with 1 or 2 engaged users: the    *)
(* language table has up to four rows.                                     *)
(***************************************************************************)
PermuteLanguageLists ==
    {<<Lang(n, e, 1, 2)>> : n \in {"go", "python"}, e \in {1, 2}}
    \cup {<<Lang("go", e1, 1, 2), Lang("python", e2, 1, 2)>> : e1 \in {1, 2}, e2 \in {1, 2}}
    \cup {<<Lang("python", e1, 1, 2), Lang("go", e2, 1, 2)>> : e1 \in {1, 2}, e2 \in {1, 2}}

PermuteRecords ==
    {With(Base(d), "copilot_ide_code_completions",
          Completions(Lst(<<CompEditor("vscode", Lst(<<CompModel(Lst(l))>>))>>))) :
        d \in {1, 2}, l \in PermuteLanguageLists}

PermuteInit == DashInit(Tables(PermuteRecords, 2))

PermuteNext ==
    \/ ExtractLanguage
    \/ ExtractChat
    \/ RenderLanguage({"All time"})
    \/ Rerun

SpecPermute == PermuteInit /\ [][PermuteNext]_vars

(***************************************************************************)
(* Properties of the language ranking under row order (SpecPermute).       *)
(***************************************************************************)
\* every order of the rows of a table
RowOrders(rows) ==
    {[i \in 1..Len(rows) |-> rows[p[i]]] :
        p \in {q \in [1..Len(rows) -> 1..Len(rows)] :
                  \A i, j \in 1..Len(rows) : i # j => q[i] # q[j]}}

\* C21: the top-10 ranking of the languages by engaged users is the same
\* for every order of the rows of the language table; on one build (one
\* handling of equal sums) only the sums of the languages decide it.
C21_RankingIgnoresRowOrder ==
    (view.view = "language" /\ view.rendered) =>
        \E ties \in TieOrders :
            \A rows \in RowOrders(view.table) :
                render_language_analysis(rows, view.period, view.compare_previous,
                                         ties).top_languages
                    = view.top_languages

\* a ranking of two languages of equal sum from four rows, the rows of a
\* language apart from each other
C21_InterleavedRowsWithTie ==
    /\ view.view = "language"
    /\ view.rendered
    /\ Len(view.table) = 4
    /\ view.table[1].language = "python"
    /\ view.table[2].language = "go"
    /\ view.table[3].language = "go"
    /\ view.table[4].language = "python"
    /\ view.current_totals["go"] = view.current_totals["python"]
    /\ Len(view.top_languages) = 2


(***************************************************************************)
(* render_data_insights.  The freshness metric reads the clock and is left *)
(* out.  The standard deviation is a square root: 100 * std / mean is kept *)
(* exact as Root(n, d), which stands for 100 * sqrt(n / d), and            *)
(* 100 - 100 * sqrt(n / d) with 0 < n < d as Below100(n, d).               *)
(***************************************************************************)
Root(n, d) == [kind |-> "root", num |-> n, den |-> d]
Below100(n, d) == [kind |-> "100-root", num |-> n, den |-> d]

\* the sum of f over the set S
RECURSIVE SumOver(_, _)
SumOver(f, S) ==
    IF S = {} THEN 0
    ELSE LET x == CHOOSE x \in S : TRUE
         IN  f[x] + SumOver(f, S \ {x})

\* df.groupby('organization')['date'].nunique(): a record without
\* organization has NaN as key and is dropped
OrgCoverage(table) ==
    LET rows == SelectSeq(table, LAMBDA r : "organization" \in DOMAIN r)
    IN  [o \in {rows[i].organization : i \in 1..Len(rows)} |->
            Cardinality({rows[i].date : i \in {j \in 1..Len(rows) : rows[j].organization = o}})]

\* org_coverage.std() / org_coverage.mean() * 100, with the sample standard
\* deviation: std^2 / mean^2 = sum (n*c - total)^2 / ((n - 1) * total^2);
\* the std of fewer than two values is NaN
ConsistencyVariance(org_coverage) ==
    LET n == Cardinality(DOMAIN org_coverage)
        total == SumOver(org_coverage, DOMAIN org_coverage)
        deviations == [o \in DOMAIN org_coverage |->
                          (n * org_coverage[o] - total) * (n * org_coverage[o] - total)]
    IN  IF n < 2 THEN NaN
        ELSE Root(SumOver(deviations, DOMAIN org_coverage), (n - 1) * total * total)

\* 100 - consistency_variance, whatever its sign
HundredMinusUnfloored(v) ==
    IF v.num = 0 THEN Num(100, 1) ELSE Below100(v.num, v.den)

\* max(0, 100 - consistency_variance)
HundredMinusFloored(v) ==
    IF v.num = 0 THEN Num(100, 1)
    ELSE IF v.num >= v.den THEN Zero
    ELSE Below100(v.num, v.den)

\* the collection consistency of render_data_insights
ConsistencyScore(org_coverage) ==
    IF Cardinality(DOMAIN org_coverage) > 1
           /\ SumOver(org_coverage, DOMAIN org_coverage) > 0
    THEN LET consistency_variance == ConsistencyVariance(org_coverage)
         IN  IF consistency_variance.kind = "nan" THEN Num(100, 1)
             ELSE HundredMinusFloored(consistency_variance)
    ELSE Num(100, 1)

\* df['download_timestamp'] and df.groupby('organization') raise KeyError
\* on a table without the column
render_data_insights(table) ==
    IF ~HasColumn(table, "download_timestamp") \/ ~HasColumn(table, "organization")
    THEN [view |-> "insights", rendered |-> FALSE, raised |-> "KeyError"]
    ELSE [view |-> "insights",
          rendered |-> TRUE,
          date_range |-> MaxDate(table) - MinDate(table) + 1,
          org_coverage |-> OrgCoverage(table),
          consistency_score |-> ConsistencyScore(OrgCoverage(table))]

RenderInsights == Render(render_data_insights(df))

(***************************************************************************)
(* The data insights on tables of up to three organizations: acme has      *)
(* records for the dates 1..a, octo for 1..b, zeta for date 1 or none; a   *)
(* second download of acme's first date and a record without organization  *)
(* may be there as well.  The rows are in date order.                      *)
(***************************************************************************)
OrgRecord(org, d, ts) == [date |-> d, organization |-> org, download_timestamp |-> ts]

InsightRowsOfDate(d, a, b, c, again, anonymous) ==
    (IF d <= a THEN <<OrgRecord("acme", d, 1)>> ELSE <<>>)
    \o (IF d = 1 /\ again THEN <<OrgRecord("acme", d, 2)>> ELSE <<>>)
    \o (IF d <= b THEN <<OrgRecord("octo", d, 1)>> ELSE <<>>)
    \o (IF d <= c THEN <<OrgRecord("zeta", d, 1)>> ELSE <<>>)
    \o (IF d = 1 /\ anonymous THEN <<[date |-> d, download_timestamp |-> 1]>> ELSE <<>>)

InsightTables ==
    {FlatMap(LAMBDA d : InsightRowsOfDate(d, a, b, c, again, anonymous),
             [i \in 1..MaxOrgDates |-> i]) :
        a \in 1..MaxOrgDates, b \in 0..MaxOrgDates, c \in {0, 1},
        again \in BOOLEAN, anonymous \in BOOLEAN}

InsightsInit == DashInit(InsightTables)

InsightsNext ==
    \/ ExtractLanguage
    \/ ExtractChat
    \/ RenderInsights
    \/ Rerun

SpecInsights == InsightsInit /\ [][InsightsNext]_vars

(***************************************************************************)
(* Properties of the collection consistency (SpecInsights).                *)
(***************************************************************************)
\* the organizations of the table
C22_Organizations ==
    {df[i].organization : i \in {j \in 1..Len(df) : "organization" \in DOMAIN df[j]}}

\* the number of distinct dates of an organization
C22_Dates(o) ==
    Cardinality({d \in 1..MaxOrgDates :
                    \E i \in 1..Len(df) :
                        /\ "organization" \in DOMAIN df[i]
                        /\ df[i].organization = o
                        /\ df[i].date = d})

RECURSIVE C22_Sum(_)
C22_Sum(orgs) ==
    IF orgs = {} THEN 0
    ELSE LET o == CHOOSE o \in orgs : TRUE IN C22_Dates(o) + C22_Sum(orgs \ {o})

RECURSIVE C22_SumOfSquares(_)
C22_SumOfSquares(orgs) ==
    IF orgs = {} THEN 0
    ELSE LET o == CHOOSE o \in orgs : TRUE
         IN  C22_Dates(o) * C22_Dates(o) + C22_SumOfSquares(orgs \ {o})

\* stddev^2 / mean^2 of the counts is C22_RatioNum / C22_RatioDen, from
\* var = (n * sum c^2 - (sum c)^2) / (n * (n - 1)) and mean = sum c / n
C22_RatioNum ==
    LET n == Cardinality(C22_Organizations)
    IN  n * (n * C22_SumOfSquares(C22_Organizations)
                 - C22_Sum(C22_Organizations) * C22_Sum(C22_Organizations))

C22_RatioDen ==
    LET n == Cardinality(C22_Organizations)
    IN  (n - 1) * C22_Sum(C22_Organizations) * C22_Sum(C22_Organizations)

\* C22: the consistency score is 100 with at most one organization and
\* with equal counts of distinct dates; otherwise it is
\* 100 - stddev / mean * 100 of the counts, and 0 when that is negative; it
\* always lies in [0, 100].
C22_ConsistencyScore ==
    (view.view = "insights" /\ view.rendered) =>
        LET score == view.consistency_score
        IN  /\ Cardinality(C22_Organizations) <= 1 => score = Num(100, 1)
            /\ (\A o1, o2 \in C22_Organizations : C22_Dates(o1) = C22_Dates(o2))
                   => score = Num(100, 1)
            /\ Cardinality(C22_Organizations) > 1 =>
                   IF C22_RatioNum = 0 THEN score = Num(100, 1)
                   ELSE IF C22_RatioNum >= C22_RatioDen THEN score = Num(0, 1)
                   ELSE /\ score.kind = "100-root"
                        /\ score.num * C22_RatioDen = score.den * C22_RatioNum
            /\ \/ score.kind = "num" /\ score.den = 1 /\ score.num \in {0, 100}
               \/ score.kind = "100-root" /\ 0 < score.num /\ score.num < score.den

\* two organizations with 1 and 6 dates: stddev / mean is above 1 and the
\* score is floored at 0
C22_FlooredAtZero ==
    /\ view.view = "insights"
    /\ view.rendered
    /\ Cardinality(C22_Organizations) = 2
    /\ \E o1, o2 \in C22_Organizations : C22_Dates(o1) = 1 /\ C22_Dates(o2) = 6
    /\ view.consistency_score = Num(0, 1)


(***************************************************************************)
(* The sidebar filters of main(): between the extraction and the views,    *)
(* main() cuts the three tables to the selected date range and, when the   *)
(* wide table has more than one organization, to the selected              *)
(* organization.  The render actions above take the tables as they are     *)
(* handed to the render functions; the filters are modelled here.          *)
(* pd.DataFrame([]) has no columns, so an extracted table without rows     *)
(* has no 'date' and no 'organization' column; a table that a filter       *)
(* empties keeps its columns.                                              *)
(***************************************************************************)
\* what st.sidebar.date_input returns for a range: (start, end), or
\* (start,) while the user has picked only one end
DateRanges(table) ==
    {<<s, e>> : s \in MinDate(table)..MaxDate(table), e \in MinDate(table)..MaxDate(table)}
    \cup {<<s>> : s \in MinDate(table)..MaxDate(table)}

\* t[(t['date'].dt.date >= start_date) & (t['date'].dt.date <= end_date)]
DateFilter(table, date_range) ==
    IF Len(date_range) = 2 THEN Between(table, date_range[1], date_range[2]) ELSE table

\* the date filter reads lang_df['date'] and chat_df['date']
DateFilterRaises(date_range, lang, chat) ==
    Len(date_range) = 2 /\ (lang = <<>> \/ chat = <<>>)

\* df['organization'].unique(): NaN stands for the records without one
Orgs(table) ==
    {IF "organization" \in DOMAIN table[i] THEN table[i].organization ELSE "nan" :
        i \in 1..Len(table)}

\* t[t['organization'] == selected_org]; NaN is equal to nothing
OrgFilter(table, selected_org) ==
    SelectSeq(table, LAMBDA r : "organization" \in DOMAIN r
                                 /\ selected_org # "nan"
                                 /\ r.organization = selected_org)

\* the organization filter is applied with more than one organization
OrgFilterApplies(table) ==
    HasColumn(table, "organization") /\ Cardinality(Orgs(table)) > 1

\* it reads lang_df['organization'] and chat_df['organization']
OrgFilterRaises(table, lang, chat) ==
    OrgFilterApplies(table) /\ (lang = <<>> \/ chat = <<>>)

SidebarFilters ==
    /\ pc = "ready"
    /\ Len(df) > 0
    /\ \E date_range \in DateRanges(df) :
        LET dated == DateFilter(df, date_range)
        IN  \E selected_org \in (IF dated = <<>> THEN {"nan"} ELSE Orgs(dated)) :
            IF DateFilterRaises(date_range, lang_df, chat_df)
                   \/ OrgFilterRaises(dated, lang_df, chat_df)
            THEN /\ pc' = "error"
                 /\ view' = [view |-> "error", raised_by |-> "main",
                             date_range |-> date_range]
                 /\ UNCHANGED <<df, lang_df, chat_df>>
            ELSE /\ pc' = "filtered"
                 /\ view' = [view |-> "filters", date_range |-> date_range,
                             selected_org |-> selected_org]
                 /\ IF OrgFilterApplies(dated)
                    THEN /\ df' = OrgFilter(dated, selected_org)
                         /\ lang_df' = OrgFilter(DateFilter(lang_df, date_range), selected_org)
                         /\ chat_df' = OrgFilter(DateFilter(chat_df, date_range), selected_org)
                    ELSE /\ df' = dated
                         /\ lang_df' = DateFilter(lang_df, date_range)
                         /\ chat_df' = DateFilter(chat_df, date_range)
    /\ UNCHANGED ingestVars

\* records of two dates and two organizations, with code completions, chat
\* data, both or neither
MainRecords ==
    LET rows == {[Base(d) EXCEPT !.organization = o] : d \in {1, 2}, o \in {"acme", "octo"}}
    IN  rows \cup {WithCompletions(r) : r \in rows}
             \cup {WithChat(r) : r \in rows}
             \cup {WithCompletions(WithChat(r)) : r \in rows}

MainInit == DashInit(Tables(MainRecords, 2))

MainNext ==
    \/ ExtractLanguage
    \/ ExtractChat
    \/ SidebarFilters

SpecMain == MainInit /\ [][MainNext]_vars

(***************************************************************************)
(* Properties of the sidebar filters (SpecMain).                           *)
(***************************************************************************)
\* C23: the date-range and organization filters of the dashboard do not
\* raise when an extracted table has zero rows.
C23_FiltersAcceptEmptyExtract ==
    ~(/\ pc = "error"
      /\ view.raised_by = "main"
      /\ (lang_df = <<>> \/ chat_df = <<>>))

\* the filters cut all three tables of a table with completions and chat
\* data of two organizations to one date and one organization
C23_FilteredToOneOrganization ==
    /\ pc = "filtered"
    /\ view.date_range = <<2, 2>>
    /\ view.selected_org = "octo"
    /\ Len(df) = 1
    /\ Len(lang_df) = 1
    /\ Len(chat_df) = 2
    /\ \A i \in 1..Len(chat_df) : chat_df[i].organization = "octo" /\ chat_df[i].date = 2


(***************************************************************************)
(* Properties of the records of an ingestion run (SpecRun).                *)
(***************************************************************************)
\* the (organization, date, download_timestamp) of a record; the
\* organization of a record without one is written <<>>
C24_Triple(r) ==
    <<Get(r, "organization", <<>>), r.date, r.download_timestamp>>

\* C24: no two records of the table of an ingestion run have the same
\* (organization, date, download_timestamp).
C24_TripleIdentifiesRecord ==
    RunProcessed =>
        \A i, j \in 1..Len(run.df) :
            C24_Triple(run.df[i]) = C24_Triple(run.df[j]) => i = j

\* a run over two files of different organizations
C24_TwoRecordsTwoTriples ==
    /\ RunProcessed
    /\ Len(run.df) = 2
    /\ C24_Triple(run.df[1]) # C24_Triple(run.df[2])


(***************************************************************************)
(* The extractors and the overview on records that lack count fields: the  *)
(* top-level user counts, the counts of the language go, and the counts of *)
(* the chat model of the editor jetbrains.                                 *)
(***************************************************************************)
DefaultsRecords ==
    {WithUsers(Base(1), 2, 1),
     With(Base(1), "total_active_users", 2),
     With(Base(1), "total_engaged_users", 1),
     Base(1),
     With(WithUsers(Base(1), 2, 1), "copilot_ide_code_completions",
          Completions(Lst(<<CompEditor("vscode",
              Lst(<<CompModel(Lst(<<Python, GoNoCounts>>))>>))>>))),
     With(WithUsers(Base(1), 2, 1), "copilot_ide_chat",
          IdeChat(Lst(<<ChatEditor("vscode", Lst(<<ChatModel("default", 2, 1)>>)),
                        ChatEditor("jetbrains", Lst(<<[name |-> "default"]>>))>>)))}

DefaultsInit == DashInit(Tables(DefaultsRecords, 2))

DefaultsNext ==
    \/ ExtractLanguage
    \/ ExtractChat
    \/ RenderOverview
    \/ Rerun

SpecDefaults == DefaultsInit /\ [][DefaultsNext]_vars

(***************************************************************************)
(* Properties of the absent count fields (SpecDefaults).                   *)
(***************************************************************************)
\* the extracted rows of a language or chat model without counts have 0
C25_ExtractedCountsAreZero ==
    /\ pc \in {"lang_done", "ready", "rendered"} =>
           \A i \in 1..Len(lang_df) :
               lang_df[i].language = "go" =>
                   /\ lang_df[i].total_code_acceptances = 0
                   /\ lang_df[i].total_code_suggestions = 0
                   /\ lang_df[i].total_code_lines_accepted = 0
                   /\ lang_df[i].total_code_lines_suggested = 0
    /\ pc \in {"ready", "rendered"} =>
           \A i \in 1..Len(chat_df) :
               chat_df[i].editor = "jetbrains" =>
                   /\ chat_df[i].total_engaged_users = 0
                   /\ chat_df[i].total_chats = 0
                   /\ chat_df[i].total_chat_copy_events = 0
                   /\ chat_df[i].total_chat_insertion_events = 0

\* the two user metrics of the overview show 0 for a count the latest
\* record lacks
C25_OverviewMetricsAreZero ==
    view.view = "overview" =>
        /\ "total_active_users" \notin DOMAIN view.latest_data
               => view.active_users_metric = [shown |-> "int", value |-> 0]
        /\ "total_engaged_users" \notin DOMAIN view.latest_data
               => view.engaged_users_metric = [shown |-> "int", value |-> 0]

\* the engaged users the engagement rate is computed from are 0 when the
\* latest record lacks them: the rate of a record with active users is 0
C25_OverviewRateCountsZero ==
    (/\ view.view = "overview"
     /\ "total_engaged_users" \notin DOMAIN view.latest_data
     /\ "total_active_users" \in DOMAIN view.latest_data)
        => view.engagement_rate.kind = "num" /\ view.engagement_rate.num = 0

\* C25: a count field that is absent in the source is 0 in the derived
\* value, never an error or NaN: the counts of the extracted language and
\* chat rows, and the total_active_users and total_engaged_users the
\* overview shows and computes with.
C25_AbsentCountsAreZero ==
    /\ C25_ExtractedCountsAreZero
    /\ C25_OverviewMetricsAreZero
    /\ C25_OverviewRateCountsZero

\* the overview of a table whose only record has no user counts
C25_OverviewWithoutCounts ==
    /\ view.view = "overview"
    /\ Len(df) = 1
    /\ "total_active_users" \notin DOMAIN view.latest_data
    /\ "total_engaged_users" \notin DOMAIN view.latest_data
    /\ view.active_users_metric = [shown |-> "int", value |-> 0]
    /\ view.engagement_rate = Num(0, 1)


(***************************************************************************)
(* Properties of the rows of the extractors (SpecExtract).                 *)
(***************************************************************************)
\* the items of the list under a key; nothing when the key is absent
C26_Items(d, key) ==
    IF key \in DOMAIN d
    THEN IF d[key].kind = "list" THEN d[key].items ELSE <<>>
    ELSE <<>>

\* the editors of the code completions of a record
C26_Editors(r) ==
    IF "copilot_ide_code_completions" \in DOMAIN r
    THEN IF r.copilot_ide_code_completions.kind = "dict"
         THEN C26_Items(r.copilot_ide_code_completions, "editors")
         ELSE <<>>
    ELSE <<>>

C26_Models(r, e) == C26_Items(C26_Editors(r)[e], "models")

C26_Languages(r, e, m) == C26_Items(C26_Models(r, e)[m], "languages")

\* the leaves of the table: <<record, editor, model, language>> by position
C26_Leaves ==
    UNION {UNION {UNION {{<<r, e, m, l>> : l \in 1..Len(C26_Languages(df[r], e, m))} :
                             m \in 1..Len(C26_Models(df[r], e))} :
                      e \in 1..Len(C26_Editors(df[r]))} :
               r \in 1..Len(df)}

\* leaf a comes before leaf b: records first, then editors, models, languages
C26_Before(a, b) ==
    \E k \in 1..4 : a[k] < b[k] /\ \A j \in 1..(k - 1) : a[j] = b[j]

C26_Position(leaf) == 1 + Cardinality({x \in C26_Leaves : C26_Before(x, leaf)})

\* C26: extract_language_metrics emits one row for each (record, editor,
\* model, language) leaf and no other row, in the order of records, then
\* editors, then models, then languages; an absent or empty list gives no
\* row and leaves the rows of the sibling branches as they are.
C26_OneRowPerLeafInOrder ==
    pc \in {"lang_done", "ready"} =>
        /\ Len(lang_df) = Cardinality(C26_Leaves)
        /\ \A leaf \in C26_Leaves :
               LET row == lang_df[C26_Position(leaf)]
                   editor == C26_Editors(df[leaf[1]])[leaf[2]]
                   lang == C26_Languages(df[leaf[1]], leaf[2], leaf[3])[leaf[4]]
               IN  /\ row.date = df[leaf[1]].date
                   /\ row.organization = df[leaf[1]].organization
                   /\ row.editor = (IF "name" \in DOMAIN editor THEN editor.name ELSE "unknown")
                   /\ row.language = (IF "name" \in DOMAIN lang THEN lang.name ELSE "unknown")
                   /\ row.total_code_acceptances =
                          (IF "total_code_acceptances" \in DOMAIN lang
                           THEN lang.total_code_acceptances ELSE 0)
                   /\ row.feature_type = "code_completions"

\* two records: a model with two languages, and a model without languages
\* beside one with a language; three rows in that order
C26_SiblingOfEmptyBranch ==
    /\ pc = "lang_done"
    /\ Len(df) = 2
    /\ Len(C26_Editors(df[1])) = 1
    /\ Len(C26_Models(df[1], 1)) = 1
    /\ Len(C26_Languages(df[1], 1, 1)) = 2
    /\ Len(C26_Editors(df[2])) = 1
    /\ Len(C26_Models(df[2], 1)) = 2
    /\ Len(C26_Languages(df[2], 1, 1)) = 0
    /\ Len(C26_Languages(df[2], 1, 2)) = 1
    /\ Len(lang_df) = 3
    /\ lang_df[1].language = "python"
    /\ lang_df[2].language = "go"
    /\ lang_df[3].language = "python"


\* the record carries a non-empty copilot_dotcom_chat structure
C27_HasDotcomChat(r) ==
    IF "copilot_dotcom_chat" \in DOMAIN r
    THEN r.copilot_dotcom_chat.kind = "dict" /\ DOMAIN r.copilot_dotcom_chat # {"kind"}
    ELSE FALSE

\* the editors of the IDE chat of a record
C27_IdeEditors(r) ==
    IF "copilot_ide_chat" \in DOMAIN r
    THEN IF r.copilot_ide_chat.kind = "dict"
         THEN C26_Items(r.copilot_ide_chat, "editors")
         ELSE <<>>
    ELSE <<>>

\* the (record, editor, model) leaves of the IDE chat of the records 1..n
C27_IdeLeaves(n) ==
    UNION {UNION {{<<r, e, m>> : m \in 1..Len(C26_Items(C27_IdeEditors(df[r])[e], "models"))} :
                      e \in 1..Len(C27_IdeEditors(df[r]))} :
               r \in 1..n}

\* where the dotcom_chat row of record n stands: after the IDE chat rows of
\* the records up to n and the dotcom_chat rows of the records before n
C27_DotcomPosition(n) ==
    Cardinality(C27_IdeLeaves(n)) + Cardinality({q \in 1..n : C27_HasDotcomChat(df[q])})

\* C27: extract_chat_metrics emits one dotcom_chat row for each record with
\* a non-empty copilot_dotcom_chat, whatever the number of its models, with
\* editor 'github.com' and 0 copy and insertion events; every other row is
\* an ide_chat row.
C27_OneDotcomRowPerRecord ==
    pc = "ready" =>
        LET dotcom == {n \in 1..Len(df) : C27_HasDotcomChat(df[n])}
            positions == {C27_DotcomPosition(n) : n \in dotcom}
        IN  /\ Len(chat_df) = Cardinality(C27_IdeLeaves(Len(df))) + Cardinality(dotcom)
            /\ \A n \in dotcom :
                   LET row == chat_df[C27_DotcomPosition(n)]
                   IN  /\ row.feature_type = "dotcom_chat"
                       /\ row.editor = "github.com"
                       /\ row.date = df[n].date
                       /\ row.organization = df[n].organization
                       /\ row.total_chat_copy_events = 0
                       /\ row.total_chat_insertion_events = 0
            /\ \A i \in (1..Len(chat_df)) \ positions : chat_df[i].feature_type = "ide_chat"

\* a record whose copilot_dotcom_chat lists no models and one that lists
\* two: one dotcom_chat row each
C27_NoModelsAndTwoModels ==
    /\ pc = "ready"
    /\ Len(df) = 2
    /\ C27_HasDotcomChat(df[1])
    /\ "models" \notin DOMAIN df[1].copilot_dotcom_chat
    /\ C27_HasDotcomChat(df[2])
    /\ Len(C26_Items(df[2].copilot_dotcom_chat, "models")) = 2
    /\ Len(chat_df) = 2
    /\ chat_df[1].feature_type = "dotcom_chat"
    /\ chat_df[2].feature_type = "dotcom_chat"


(***************************************************************************)
(* The two paths that count the web chats: the GitHub.com view reads the   *)
(* wide table itself, extract_chat_metrics writes the dotcom_chat rows.    *)
(* Records of two dates, 7 days apart, with every shape of                 *)
(* copilot_dotcom_chat and with pull-request data.                         *)
(***************************************************************************)
PathsRecords ==
    {With(With(Base(d), "copilot_dotcom_chat", c),
          "copilot_dotcom_pull_requests", PullRequests) :
        d \in {13, 20}, c \in DotcomChatShapes}

PathsInit == DashInit(Tables(PathsRecords, 2))

PathsNext ==
    \/ ExtractLanguage
    \/ ExtractChat
    \/ RenderDotcom(ChatPeriods)
    \/ Rerun

SpecPaths == PathsInit /\ [][PathsNext]_vars

(***************************************************************************)
(* Properties of the two web-chat paths (SpecPaths).                       *)
(***************************************************************************)
\* the dotcom_chat rows of the chat table in the window of the view
C28_ExtractedDotcomRows ==
    SelectSeq(chat_df,
              LAMBDA r : /\ r.feature_type = "dotcom_chat"
                         /\ (view.window.windowed => r.date >= view.window.start_date))

\* C28: the web-chat total of the GitHub.com view equals the sum of
\* total_chats over the dotcom_chat rows extract_chat_metrics produced for
\* the records of the view's window.
C28_WebChatsEqualExtractedChats ==
    (view.view = "dotcom" /\ view.rendered) =>
        view.web_chats = Total(C28_ExtractedDotcomRows, "total_chats")

\* a table of one-model records on which the two paths agree
C28_PathsAgreeOnOneModel ==
    /\ view.view = "dotcom"
    /\ view.rendered
    /\ Len(df) = 2
    /\ \A i \in 1..Len(df) :
           df[i].copilot_dotcom_chat = DotcomChat(3, Lst(<<DotcomModel("default", 2)>>))
    /\ view.web_chats = 4
    /\ Total(C28_ExtractedDotcomRows, "total_chats") = 4

=============================================================================
